---- MODULE Spec2Model ----
(***************************************************************************)
(* Task Orchestration Engine of the AI-EMPLOYEE repository: the vault      *)
(* (folders used as queues), the claim lock, the Orchestration Controller, *)
(* the Ralph persistence loop and the Approved-folder dispatcher.          *)
(*                                                                         *)
(* A path is <<dir, name>>; dir and name are sequences of strings, so that *)
(* Path.with_suffix, Path.stem and directory nesting are computed and not  *)
(* assumed.  The file system is a function from the existing paths to the  *)
(* document stored there.                                                  *)
(***************************************************************************)
EXTENDS Integers, Sequences, FiniteSets, TLC

\* ------------------------------------------------------------------ bounds
Tasks == {"t1", "t2"}
Procs == {"p1", "p2"}
DefaultTimeout == 2
MaxClaims == 3
\* tasks that need an outbound action, hence a draft
MaxDrafts == 1

\* ------------------------------------------------------------- vault layout
NeedsActionDir == <<"Needs_Action">>
InProgressRoot == <<"In_Progress">>
PlansDir == <<"Plans">>
DoneDir == <<"Done">>
PendingApprovalDir == <<"Pending_Approval">>
ApprovedDir == <<"Approved">>
RejectedDir == <<"Rejected">>
FailedDir == <<"Failed">>

AgentDir(root, agent) == Append(root, agent)

TaskName(t) == <<t, ".md">>

TaskDoc(t) == [kind |-> "task", id |-> t, by |-> "producer"]

LockDoc(p) == [kind |-> "lock", id |-> "", by |-> p]

\* ---------------------------------------------------------------- variables
VARIABLES
  fs,        \* the vault: existing path -> document
  lock,      \* per process: its FileLock instance
  cpc,       \* per process: position inside claim_task / direct lock use
  cargs,     \* per process: arguments of the running claim_task call
  cret,      \* per process: pending / final result of claim_task
  acqRet,    \* per process: what the last acquire() call returned
  claimLog,  \* history: finished claim_task calls <<proc, path, agent, result>>
  removed,   \* history: task files removed from the vault by an outside actor
  actlog,    \* Logs/<day>.md: the activity entries written by log_activity
  installed, \* the worker binaries shutil.which finds on PATH
  vault_exists, \* vault_manager.vault_path resolves to an existing directory
  lpc,       \* per process: position inside execute_with_persistence
  largs,     \* per process: arguments (prompt, task_file) of the running call
  iteration, \* per process: the loop's iteration counter
  ai_cli_path, \* per process: RalphLoopManager.ai_cli_path
  lres,      \* per process: what subprocess.run produced (or raised)
  lerr,      \* per process: the exception execute_with_persistence raised
  invocations, \* history: number of subprocess.run calls of the running call
  hist,      \* history: classes of the worker outcomes seen in the running call
  ctl,       \* per process: position inside OrchestratorController.start_monitoring
  todo,      \* per process: files of the current listing not yet visited
  orphans,   \* history: tasks a previous crash left in In_Progress
  dpc,       \* ApprovedEmailSender: position inside run / _handle_approved_file
  dtodo,     \* ApprovedEmailSender: the sorted files of the current poll, not yet handled
  dcur,      \* ApprovedEmailSender: the file being handled and its parsed draft
  dres,      \* ApprovedEmailSender: outcome of the transmission of dcur
  dry_run,   \* ApprovedEmailSender.dry_run
  sent,      \* history: the transmissions made, with where the draft file was
  spc,       \* position inside _send_with_retry
  max_retries, \* _send_with_retry: the max_retries argument
  attempt,   \* _send_with_retry: the attempt counter of the for loop
  backoff,   \* _send_with_retry: the next sleep
  sret,      \* _send_with_retry: the returned (success, message) pair
  serrs,     \* history: what each attempt of the running call raised
  sleeps,    \* history: the arguments of the time.sleep calls of the running call
  vcall,     \* VaultManager: the last read_file / write_file / move_file call
  vret,      \* VaultManager: what that call returned or raised
  vio,       \* history: the file I/O that call made, on resolved paths
  log_file,  \* Logs/<day>.md as a file: whether it exists, and its lines
  gpc,       \* per thread: position inside VaultManager.log_activity
  ncalls,    \* per thread: number of log_activity calls begun
  written,   \* history: the entries whose append has been done
  preq,      \* the work request process_task handed over and the worker has not finished
  requests,  \* history: the work requests process_task built
  pin,       \* parse_draft: the fields the draft text was built from
  pout,      \* parse_draft: what parsing the built text returned
  epc,       \* e-mail path of _handle_approved_file: position
  edraft,    \* that path: the parsed draft (attachments, invoice reference)
  eatt,      \* that path: the number of entries of draft["attachments"]
  efetches,  \* history: what each _fetch_invoice_pdf call of the handling returned
  eout,      \* that path: the transmission made and the folder the draft went to
  running,   \* OrchestratorController.running
  kpc,       \* start_monitoring: position of the thread that runs it
  kitems,    \* start_monitoring: files of the current listing not yet visited
  shutdown,  \* ApprovedEmailSender._shutdown
  rpc,       \* ApprovedEmailSender.run: position of the thread that runs it
  ritems,    \* ApprovedEmailSender.run: files of the current poll not yet handled
  stops,     \* history: the components stop() was called on
  late,      \* history: <<component, what it began after its stop()>>
  inbox,     \* ApprovedEmailSender.run: the .md drafts in Approved
  hpc,       \* ApprovedEmailSender.run: position inside the poll cycle
  htodo,     \* ApprovedEmailSender.run: sorted drafts of the cycle not yet handled
  hres,      \* ApprovedEmailSender.run: what the transmission of the current draft gave
  hsent,     \* history: per draft, the number of successful transmissions
  renames_ok \* whether src.rename(dest) into Done / Rejected can succeed

fsVars == <<fs, removed>>
lockVars == <<lock, cpc, cargs, cret, acqRet, claimLog>>
loopVars == <<installed, vault_exists, lpc, largs, iteration, ai_cli_path, lres, lerr, invocations, hist>>
ctlVars == <<ctl, todo, orphans>>
dispVars == <<dpc, dtodo, dcur, dres, dry_run, sent>>
sendVars == <<spc, max_retries, attempt, backoff, sret, serrs, sleeps>>
pathVars == <<vcall, vret, vio>>
logVars == <<log_file, gpc, ncalls, written>>
planVars == <<preq, requests>>
parseVars == <<pin, pout>>
enrichVars == <<epc, edraft, eatt, efetches, eout>>
stopVars == <<running, kpc, kitems, shutdown, rpc, ritems, stops, late>>
runVars == <<inbox, hpc, htodo, hres, hsent, renames_ok>>
extVars == <<enrichVars, stopVars, runVars>>
libVars == <<sendVars, pathVars, logVars, planVars, parseVars, extVars>>
vars == <<fsVars, lockVars, actlog, loopVars, ctlVars, dispVars, libVars>>

\* what the library functions checked on their own never touch
outsideLib == <<fsVars, lockVars, actlog, loopVars, ctlVars, dispVars, extVars>>

\* what the handlers modelled on their own never touch
outsideExt ==
  <<fsVars, lockVars, actlog, loopVars, ctlVars, dispVars, sendVars, pathVars,
    logVars, planVars, parseVars>>

\* what the lock and claim steps never touch
outsideLock == <<actlog, libVars, loopVars, ctlVars, dispVars>>

\* what the persistence loop and the worker never touch
outsideLoop == <<removed, lockVars, ctlVars, dispVars>>

\* ------------------------------------------------------ file system helpers
Exists(f, path) == path \in DOMAIN f

CreateFile(f, path, doc) ==
  [q \in (DOMAIN f) \cup {path} |-> IF q = path THEN doc ELSE f[q]]

Unlink(f, path) == [q \in (DOMAIN f) \ {path} |-> f[q]]

\* a move done as a copy that leaves the source in place
Rename_Copy(f, src, dst) ==
  [q \in (DOMAIN f) \cup {dst} |-> IF q = dst THEN f[src] ELSE f[q]]

\* Path.rename: one atomic step, replaces an existing destination (POSIX)
Rename(f, src, dst) ==
  [q \in ((DOMAIN f) \ {src}) \cup {dst} |-> IF q = dst THEN f[src] ELSE f[q]]

FilesIn(f, dir) == {q \in DOMAIN f : q[1] = dir}

PathsOfDoc(f, doc) == {q \in DOMAIN f : f[q] = doc}

\* -------------------------------------------------------------- FileLock
\* file_path.with_suffix(file_path.suffix + '.lock')
LockFilePath(path) == <<path[1], Append(path[2], ".lock")>>

NewFileLock(path, timeout) ==
  [file_path |-> path, lock_file_path |-> LockFilePath(path),
   timeout |-> timeout, acquired |-> FALSE, elapsed |-> 0, attempts |-> 0]

NoPath == <<NeedsActionDir, <<>> >>

NoLock == NewFileLock(NoPath, 0)

\* a create without O_EXCL never fails on an existing file
ExclusiveCreateOk_NoExcl(f, l) == TRUE

\* os.open(O_CREAT | O_EXCL): succeeds iff the sidecar file does not exist
ExclusiveCreateOk(f, l) == ~Exists(f, l.lock_file_path)

\* where control goes when acquire() returns inside the running operation
AfterAcquire(p, ok) ==
  IF cpc[p] = "acquire"
    THEN (IF ok THEN "exists" ELSE "done")
    ELSE (IF ok THEN "held" ELSE "d_failed")

\* one pass of the `while True` loop of FileLock.acquire
acquire(p) ==
  /\ cpc[p] \in {"acquire", "d_acquire"}
  /\ LET l == lock[p] IN
     \/ /\ ExclusiveCreateOk(fs, l)
        /\ fs' = CreateFile(fs, l.lock_file_path, LockDoc(p))
        /\ lock' = [lock EXCEPT ![p].acquired = TRUE,
                                ![p].attempts = l.attempts + 1]
        /\ acqRet' = [acqRet EXCEPT ![p] = "true"]
        /\ cpc' = [cpc EXCEPT ![p] = AfterAcquire(p, TRUE)]
        /\ UNCHANGED cret
     \/ /\ ~ExclusiveCreateOk(fs, l)
        /\ \E now \in l.elapsed .. l.timeout :
             IF now >= l.timeout
               THEN \* time.time() - start_time >= self.timeout: give up
                    /\ lock' = [lock EXCEPT ![p].attempts = l.attempts + 1,
                                            ![p].elapsed = now]
                    /\ acqRet' = [acqRet EXCEPT ![p] = "false"]
                    /\ cpc' = [cpc EXCEPT ![p] = AfterAcquire(p, FALSE)]
                    /\ cret' = [cret EXCEPT ![p] =
                                  IF cpc[p] = "acquire" THEN "none" ELSE @]
               ELSE \* time.sleep(0.1), then try again
                    /\ lock' = [lock EXCEPT ![p].attempts = l.attempts + 1,
                                            ![p].elapsed = now + 1]
                    /\ UNCHANGED <<acqRet, cpc, cret>>
        /\ UNCHANGED fs
  /\ UNCHANGED <<cargs, claimLog, removed, outsideLock>>

\* a release that forgets to unlink the sidecar file
ReleaseFs_NoUnlink(f, l) == f

\* FileLock.release applied to lock record l on file system f
ReleaseFs(f, l) ==
  IF l.acquired /\ Exists(f, l.lock_file_path)
    THEN Unlink(f, l.lock_file_path) ELSE f

ReleaseLock(f, l) ==
  IF l.acquired /\ Exists(f, l.lock_file_path)
    THEN [l EXCEPT !.acquired = FALSE] ELSE l

\* ------------------------------------------- direct use of a FileLock
\* lock = FileLock(path, timeout); lock.acquire()
direct_acquire(p, t, timeout) ==
  /\ cpc[p] = "idle"
  /\ Len(claimLog) < MaxClaims
  /\ lock' = [lock EXCEPT ![p] =
                NewFileLock(<<NeedsActionDir, TaskName(t)>>, timeout)]
  /\ cpc' = [cpc EXCEPT ![p] = "d_acquire"]
  /\ acqRet' = [acqRet EXCEPT ![p] = "running"]
  /\ UNCHANGED <<fs, removed, cargs, cret, claimLog, outsideLock>>

\* lock.release() by the caller, after acquire() returned (either result)
direct_release(p) ==
  /\ cpc[p] \in {"held", "d_failed"}
  /\ fs' = ReleaseFs(fs, lock[p])
  /\ lock' = [lock EXCEPT ![p] = ReleaseLock(fs, lock[p])]
  /\ cpc' = [cpc EXCEPT ![p] = "idle"]
  /\ claimLog' = Append(claimLog,
       [task_file |-> lock[p].file_path, agent_name |-> "", result |-> "direct"])
  /\ UNCHANGED <<removed, cargs, cret, acqRet, outsideLock>>

\* the agent name each calling process passes to claim_task
TestAgent(p) == IF p = "p1" THEN "orchestrator" ELSE "my_agent"

NoArgs == [task_file |-> NoPath, agent_name |-> "orchestrator"]

\* ---------------------------------------------------------------- claim_task
\* claim_task(task_file, agent_name, in_progress_dir): lock = FileLock(task_file)
claim_begin(p, path, agent) ==
  /\ lock' = [lock EXCEPT ![p] = NewFileLock(path, DefaultTimeout)]
  /\ cargs' = [cargs EXCEPT ![p] = [task_file |-> path, agent_name |-> agent]]
  /\ cret' = [cret EXCEPT ![p] = "running"]
  /\ acqRet' = [acqRet EXCEPT ![p] = "running"]
  /\ cpc' = [cpc EXCEPT ![p] = "acquire"]

\* a caller (as the unit tests do) claims a task of Needs_Action
claim_call(p, t, agent) ==
  /\ cpc[p] = "idle"
  /\ Len(claimLog) < MaxClaims
  /\ claim_begin(p, <<NeedsActionDir, TaskName(t)>>, agent)
  /\ UNCHANGED <<fs, removed, claimLog, outsideLock>>

\* `if not task_file.exists(): return None`
claim_exists(p) ==
  /\ cpc[p] = "exists"
  /\ IF Exists(fs, cargs[p].task_file)
       THEN cpc' = [cpc EXCEPT ![p] = "rename"] /\ UNCHANGED cret
       ELSE /\ cpc' = [cpc EXCEPT ![p] = "release"]
            /\ cret' = [cret EXCEPT ![p] = "none"]
  /\ UNCHANGED <<fs, removed, lock, cargs, acqRet, claimLog, outsideLock>>

NewTaskPath(args) ==
  <<AgentDir(InProgressRoot, args.agent_name), args.task_file[2]>>

\* mkdir(exist_ok=True); task_file.rename(new_task_path); return new_task_path
claim_rename(p) ==
  /\ cpc[p] = "rename"
  /\ IF Exists(fs, cargs[p].task_file)
       THEN /\ fs' = Rename(fs, cargs[p].task_file, NewTaskPath(cargs[p]))
            /\ cret' = [cret EXCEPT ![p] = "path"]
       ELSE \* FileNotFoundError propagates through the finally block
            /\ cret' = [cret EXCEPT ![p] = "raised"]
            /\ UNCHANGED fs
  /\ cpc' = [cpc EXCEPT ![p] = "release"]
  /\ UNCHANGED <<removed, lock, cargs, acqRet, claimLog, outsideLock>>

\* a claim that releases the lock only when it returns None
claim_release_OnNone(p) ==
  /\ cpc[p] = "release"
  /\ fs' = IF cret[p] = "path" THEN fs ELSE ReleaseFs(fs, lock[p])
  /\ lock' = [lock EXCEPT ![p] = IF cret[p] = "path" THEN @ ELSE ReleaseLock(fs, @)]
  /\ cpc' = [cpc EXCEPT ![p] = "done"]
  /\ UNCHANGED <<removed, cargs, cret, acqRet, claimLog, outsideLock>>

\* `finally: lock.release()`
claim_release(p) ==
  /\ cpc[p] = "release"
  /\ fs' = ReleaseFs(fs, lock[p])
  /\ lock' = [lock EXCEPT ![p] = ReleaseLock(fs, lock[p])]
  /\ cpc' = [cpc EXCEPT ![p] = "done"]
  /\ UNCHANGED <<removed, cargs, cret, acqRet, claimLog, outsideLock>>

\* the call is over: the caller has the result
claim_return(p) ==
  /\ cpc[p] = "done"
  /\ claimLog' = Append(claimLog,
       [task_file |-> cargs[p].task_file,
        agent_name |-> cargs[p].agent_name, result |-> cret[p]])
  /\ cpc' = [cpc EXCEPT ![p] = "idle"]
  /\ lock' = [lock EXCEPT ![p] = NoLock]
  /\ cargs' = [cargs EXCEPT ![p] = NoArgs]
  /\ cret' = [cret EXCEPT ![p] = "running"]
  /\ UNCHANGED <<fs, removed, acqRet, outsideLock>>

\* an outside actor (the operator, a producer) removes a task from Needs_Action
external_remove(t) ==
  /\ Exists(fs, <<NeedsActionDir, TaskName(t)>>)
  /\ removed = {}
  /\ fs' = Unlink(fs, <<NeedsActionDir, TaskName(t)>>)
  /\ removed' = removed \cup {t}
  /\ UNCHANGED <<lockVars, outsideLock>>


\* ------------------------------------------------------------ VaultManager
\* a move made of a copy that leaves the source in place
MoveFile_Copy(f, src, destination_dir) ==
  IF Exists(f, src) THEN CreateFile(f, <<destination_dir, src[2]>>, f[src]) ELSE f

\* VaultManager.move_file: rename into destination_dir under the same name;
\* a missing source makes rename raise, which move_file turns into False
MoveFile(f, src, destination_dir) ==
  IF Exists(f, src) THEN Rename(f, src, <<destination_dir, src[2]>>) ELSE f

\* VaultManager.log_activity: one more entry in the day's log
LogActivity(log, activity, who) == log \cup {[activity |-> activity, by |-> who]}

\* --------------------------------------------------- the reasoning worker
Clis == {"claude", "gemini", "qwen"}

\* _find_ai_cli: claude > gemini > qwen, or None
FindAiCli(inst) ==
  IF "claude" \in inst THEN "claude"
  ELSE IF "gemini" \in inst THEN "gemini"
  ELSE IF "qwen" \in inst THEN "qwen"
  ELSE "none"

\* what one subprocess.run can produce: an exit code with the stdout's relevant
\* content (completion marker, rate-limit text), TimeoutExpired, or another
\* SubprocessError
Outcomes ==
  {[kind |-> "exit", rc |-> rc, out |-> o] :
      rc \in {0, 1}, o \in {{}, {"marker"}, {"ratelimit"}}}
  \cup {[kind |-> "timeout", rc |-> 1, out |-> {}],
        [kind |-> "suberr", rc |-> 1, out |-> {}]}

NoResult == [kind |-> "none", rc |-> 0, out |-> {}]

OutcomeClass(o) ==
  IF o.kind # "exit" THEN o.kind
  ELSE IF o.rc = 0 THEN (IF "marker" \in o.out THEN "ok_marker" ELSE "ok_plain")
  ELSE IF "ratelimit" \in o.out THEN "fail_ratelimit"
  ELSE IF "marker" \in o.out THEN "fail_marker"
  ELSE "fail_plain"

PlanDoc(t) == [kind |-> "plan", id |-> t, by |-> "worker"]

Platforms == {"linkedin", "twitter", "facebook"}

SocialActions ==
  {"post_linkedin", "post_twitter", "post_facebook", "post_social_media", "post_social"}

DraftActions == {"send_email", "send_whatsapp"} \cup SocialActions

\* the content of a draft file, as far as the dispatcher reads it: the action,
\* whether a recipient, a subject and a non-empty body are there, the platform
\* key, and the platforms that have a "## <Platform> Post" section
Draft(t, action, to, subject, body, platform, sections) ==
  [kind |-> "draft", id |-> t, by |-> "worker", action |-> action, to |-> to,
   subject |-> subject, body |-> body, platform |-> platform,
   sections |-> sections]

\* an email draft written by the worker; wf: it has its recipient and subject
DraftDoc(t, wf) == Draft(t, "send_email", wf, wf, TRUE, "linkedin", {})

AccountingDir == <<"Accounting">>

\* the task the worker was asked to work on (the document at task_file)
WorkerTask(p) == fs[largs[p].task_file].id

\* the worker follows STEP 1: it writes the plan to Plans/<task name>
worker_write_plan(p) ==
  /\ lpc[p] = "run"
  /\ largs[p].task_file # NoPath
  /\ Exists(fs, largs[p].task_file)
  /\ ~Exists(fs, <<PlansDir, largs[p].task_file[2]>>)
  /\ fs' = CreateFile(fs, <<PlansDir, largs[p].task_file[2]>>, PlanDoc(WorkerTask(p)))
  /\ UNCHANGED <<actlog, libVars, loopVars, outsideLoop>>

\* the drafts of task t, wherever they are
DraftsOf(f, t) == {q \in DOMAIN f : f[q].kind = "draft" /\ f[q].id = t}

\* the drafts in the vault
Drafts(f) == {q \in DOMAIN f : f[q].kind = "draft"}

\* the worker follows the HITL rule: it writes a draft to Pending_Approval,
\* one draft for a task
worker_stage_draft(p, wf) ==
  /\ lpc[p] = "run"
  /\ largs[p].task_file # NoPath
  /\ Exists(fs, largs[p].task_file)
  /\ DraftsOf(fs, WorkerTask(p)) = {}
  /\ Cardinality(Drafts(fs)) < MaxDrafts
  /\ fs' = CreateFile(fs, <<PendingApprovalDir, largs[p].task_file[2]>>,
                      DraftDoc(WorkerTask(p), wf))
  /\ UNCHANGED <<actlog, libVars, loopVars, outsideLoop>>

\* the worker moves the task file out of In_Progress: `mv task_file done_file`,
\* or to a folder of its own choosing
worker_move_task(p, dest) ==
  /\ lpc[p] = "run"
  /\ largs[p].task_file # NoPath
  /\ Exists(fs, largs[p].task_file)
  /\ fs' = Rename(fs, largs[p].task_file, <<dest, largs[p].task_file[2]>>)
  /\ hist' = [hist EXCEPT ![p] = @ \cup {"moved"}]
  /\ UNCHANGED <<actlog, libVars, installed, vault_exists, lpc, largs, iteration, ai_cli_path, lres,
                 lerr, invocations, outsideLoop>>

\* subprocess.run returns or raises
worker_exit(p, o) ==
  /\ lpc[p] = "run"
  /\ lres' = [lres EXCEPT ![p] = o]
  /\ hist' = [hist EXCEPT ![p] = @ \cup {OutcomeClass(o)}]
  /\ lpc' = [lpc EXCEPT ![p] = "result"]
  /\ UNCHANGED <<fs, actlog, libVars, installed, vault_exists, largs, iteration, ai_cli_path, lerr,
                 invocations, outsideLoop>>

\* ------------------------------------------------- RalphLoopManager
max_iterations == 3
ExtraInvocations == 3
MaxInvocations == max_iterations + ExtraInvocations

PromptKinds == {"ok", "empty", "blank", "too_large"}

\* a validation that lets every request through
PromptValid_Any(prompt) == TRUE

\* `not prompt or not prompt.strip()` / `len(prompt) > 1_000_000`
PromptValid(prompt) == prompt = "ok"

\* self._is_task_complete(result.stdout)
IsTaskComplete(out) == "marker" \in out

\* self._is_task_complete_in_vault(task_file)
IsTaskCompleteInVault(f, task_file) ==
  /\ task_file # NoPath
  /\ ~Exists(f, task_file)
  /\ Exists(f, <<DoneDir, task_file[2]>>)

\* Path.stem: the name without its last suffix
Stem(name) == SubSeq(name, 1, Len(name) - 1)

IsPrefix(a, b) == Len(a) <= Len(b) /\ SubSeq(b, 1, Len(a)) = a

\* any(pending.glob(f"*{task_file.stem}*")): names are token sequences that
\* start with the stem of the file they were derived from
PendingGlob(f, task_file) ==
  \E q \in FilesIn(f, PendingApprovalDir) : IsPrefix(Stem(task_file[2]), q[2])

\* the test chain of the `returncode == 0` branch; every outcome returns
CompletionReason(f, task_file, out) ==
  IF IsTaskComplete(out) THEN "marker"
  ELSE IF IsTaskCompleteInVault(f, task_file) THEN "done"
  ELSE IF task_file # NoPath /\ ~Exists(f, task_file) THEN "gone"
  ELSE IF task_file # NoPath /\ PendingGlob(f, task_file) THEN "pending"
  ELSE "trusted"

\* the rate-limit branch: the binary the loop switches to, or "none"
Fallback(inst, current) ==
  IF "gemini" \in inst /\ "gemini" # current THEN "gemini"
  ELSE IF "qwen" \in inst /\ "qwen" # current THEN "qwen"
  ELSE "none"

\* a failure path that leaves the task where it is
MoveToFailed_Skip(f, task_file) == f

\* `if task_file: ... if task_file.exists(): move_file(task_file, failed_dir)`
MoveToFailed(f, task_file) ==
  IF task_file # NoPath THEN MoveFile(f, task_file, FailedDir) ELSE f

\* entry of execute_with_persistence
loop_begin(p, prompt, task_file) ==
  /\ largs' = [largs EXCEPT ![p] = [prompt |-> prompt, task_file |-> task_file]]
  /\ iteration' = [iteration EXCEPT ![p] = 0]
  /\ invocations' = [invocations EXCEPT ![p] = 0]
  /\ hist' = [hist EXCEPT ![p] = {}]
  /\ lres' = [lres EXCEPT ![p] = NoResult]
  /\ IF ai_cli_path[p] = "none"
       THEN /\ lpc' = [lpc EXCEPT ![p] = "raised"]
            /\ lerr' = [lerr EXCEPT ![p] = "RuntimeError: No AI CLI available"]
       ELSE /\ lpc' = [lpc EXCEPT ![p] = "iter"]
            /\ lerr' = [lerr EXCEPT ![p] = "none"]
  /\ UNCHANGED <<libVars, installed, vault_exists, ai_cli_path>>

\* a direct caller (as the unit tests do): no task file, or a claimed task
loop_call(p, prompt, task_file) ==
  /\ \A q \in Procs : lpc[q] = "idle"
  /\ task_file # NoPath => Exists(fs, task_file)
  /\ loop_begin(p, prompt, task_file)
  /\ UNCHANGED <<fs, actlog, outsideLoop>>

\* top of `while iteration < self.max_iterations`: the validations, then
\* subprocess.run starts; on a false loop condition the exhaustion epilogue
loop_iter(p) ==
  /\ lpc[p] = "iter"
  /\ IF iteration[p] < max_iterations
       THEN IF ~vault_exists \/ ~PromptValid(largs[p].prompt)
              THEN /\ lpc' = [lpc EXCEPT ![p] = "raised"]
                   /\ lerr' = [lerr EXCEPT ![p] = "ValueError"]
                   /\ UNCHANGED <<fs, actlog, invocations>>
              ELSE /\ invocations[p] < MaxInvocations
                   /\ lpc' = [lpc EXCEPT ![p] = "run"]
                   /\ invocations' = [invocations EXCEPT ![p] = @ + 1]
                   /\ UNCHANGED <<fs, actlog, lerr>>
       ELSE /\ actlog' = LogActivity(actlog, "Ralph loop max iterations exceeded", p)
            /\ fs' = MoveToFailed(fs, largs[p].task_file)
            /\ lpc' = [lpc EXCEPT ![p] = "raised"]
            /\ lerr' = [lerr EXCEPT ![p] = "Ralph loop failed: max iterations exceeded"]
            /\ UNCHANGED invocations
  /\ UNCHANGED <<libVars, installed, vault_exists, largs, iteration, ai_cli_path, lres, hist, outsideLoop>>

\* a success branch that goes round the loop again when it saw no signal
result_success_Retry(p, r) ==
  IF CompletionReason(fs, largs[p].task_file, r.out) = "trusted"
    THEN /\ iteration' = [iteration EXCEPT ![p] = @ + 1]
         /\ lpc' = [lpc EXCEPT ![p] = "iter"]
         /\ UNCHANGED <<fs, actlog, ai_cli_path, lerr>>
    ELSE /\ lpc' = [lpc EXCEPT ![p] = "returned"]
         /\ UNCHANGED <<fs, actlog, iteration, ai_cli_path, lerr>>

\* a success branch that refuses a run without any completion signal
result_success_Strict(p, r) ==
  IF CompletionReason(fs, largs[p].task_file, r.out) = "trusted"
    THEN /\ lpc' = [lpc EXCEPT ![p] = "raised"]
         /\ lerr' = [lerr EXCEPT ![p] = "no completion detected"]
         /\ UNCHANGED <<fs, actlog, iteration, ai_cli_path>>
    ELSE /\ lpc' = [lpc EXCEPT ![p] = "returned"]
         /\ UNCHANGED <<fs, actlog, iteration, ai_cli_path, lerr>>

\* `if result.returncode == 0:` every path of the branch returns result.stdout
result_success(p, r) ==
  /\ CompletionReason(fs, largs[p].task_file, r.out)
       \in {"marker", "done", "gone", "pending", "trusted"}
  /\ lpc' = [lpc EXCEPT ![p] = "returned"]
  /\ UNCHANGED <<fs, actlog, iteration, ai_cli_path, lerr>>

\* a rate-limit fallback that uses up an iteration
result_failure_Advance(p, r) ==
  IF "ratelimit" \in r.out /\ Fallback(installed, ai_cli_path[p]) # "none"
    THEN /\ ai_cli_path' = [ai_cli_path EXCEPT ![p] =
                              Fallback(installed, ai_cli_path[p])]
         /\ iteration' = [iteration EXCEPT ![p] = @ + 1]
         /\ lpc' = [lpc EXCEPT ![p] = "iter"]
         /\ UNCHANGED <<fs, actlog, lerr>>
    ELSE /\ iteration' = [iteration EXCEPT ![p] = @ + 1]
         /\ lpc' = [lpc EXCEPT ![p] = "iter"]
         /\ UNCHANGED <<fs, actlog, ai_cli_path, lerr>>

\* `else:` non-zero exit: rate-limit fallback with `continue`, else next iteration
result_failure(p, r) ==
  IF "ratelimit" \in r.out /\ Fallback(installed, ai_cli_path[p]) # "none"
    THEN /\ ai_cli_path' = [ai_cli_path EXCEPT ![p] =
                              Fallback(installed, ai_cli_path[p])]
         /\ lpc' = [lpc EXCEPT ![p] = "iter"]
         /\ UNCHANGED <<fs, actlog, iteration, lerr>>
    ELSE /\ iteration' = [iteration EXCEPT ![p] = @ + 1]
         /\ lpc' = [lpc EXCEPT ![p] = "iter"]
         /\ UNCHANGED <<fs, actlog, ai_cli_path, lerr>>

\* a timeout handled like a transient error: next iteration, no move
result_timeout_Retry(p) ==
  /\ actlog' = LogActivity(actlog, "Ralph loop timeout", p)
  /\ iteration' = [iteration EXCEPT ![p] = @ + 1]
  /\ lpc' = [lpc EXCEPT ![p] = "iter"]
  /\ UNCHANGED <<fs, ai_cli_path, lerr>>

\* `except subprocess.TimeoutExpired`
result_timeout(p) ==
  /\ actlog' = LogActivity(actlog, "Ralph loop timeout", p)
  /\ fs' = MoveToFailed(fs, largs[p].task_file)
  /\ lpc' = [lpc EXCEPT ![p] = "raised"]
  /\ lerr' = [lerr EXCEPT ![p] = "AI CLI timed out"]
  /\ UNCHANGED <<iteration, ai_cli_path>>

\* `except subprocess.SubprocessError`
result_suberr(p) ==
  /\ actlog' = LogActivity(actlog, "Ralph loop subprocess error", p)
  /\ IF iteration[p] >= max_iterations - 1
       THEN /\ fs' = MoveToFailed(fs, largs[p].task_file)
            /\ lpc' = [lpc EXCEPT ![p] = "raised"]
            /\ lerr' = [lerr EXCEPT ![p] = "Subprocess error after max iterations"]
            /\ UNCHANGED iteration
       ELSE /\ iteration' = [iteration EXCEPT ![p] = @ + 1]
            /\ lpc' = [lpc EXCEPT ![p] = "iter"]
            /\ UNCHANGED <<fs, lerr>>
  /\ UNCHANGED ai_cli_path

\* the code after subprocess.run, up to the next loop test
loop_result(p) ==
  /\ lpc[p] = "result"
  /\ LET r == lres[p] IN
     CASE r.kind = "exit" /\ r.rc = 0 -> result_success(p, r)
       [] r.kind = "exit" /\ r.rc # 0 -> result_failure(p, r)
       [] r.kind = "timeout" -> result_timeout(p)
       [] r.kind = "suberr" -> result_suberr(p)
  /\ UNCHANGED <<libVars, installed, vault_exists, largs, lres, invocations, hist, outsideLoop>>

\* ----------------------------------------------------------- draft files
NoDraft ==
  [path |-> NoPath, task_id |-> "", ok |-> FALSE, action |-> "send_email",
   body |-> FALSE, platform |-> "linkedin", sections |-> {}, results |-> <<>>]

\* ------------------------------------------------ OrchestratorController
\* main.py builds one OrchestratorController
Controllers == {"p1"}

\* what the controller and the human never touch
outsideCtl == <<removed, dispVars>>

\* start_monitoring: self.running = True, then straight into the poll loop
ctl_start(p) ==
  /\ p \in Controllers
  /\ ctl[p] = "new"
  /\ ctl' = [ctl EXCEPT ![p] = "started"]
  /\ UNCHANGED <<fs, todo, orphans, lockVars, actlog, libVars, loopVars, outsideCtl>>

\* a listing that leaves the sidecar lock files out
ListFilesInFolder_NoLocks(f, dir) ==
  {q \in FilesIn(f, dir) : q[2][Len(q[2])] # ".lock"}

\* VaultManager.list_files_in_folder: every regular file of the folder
ListFilesInFolder(f, dir) == FilesIn(f, dir)

\* new_tasks = self.vault_manager.list_files_in_folder('needs_action')
ctl_list(p) ==
  /\ ctl[p] \in {"started", "poll"}
  /\ todo' = [todo EXCEPT ![p] = ListFilesInFolder(fs, NeedsActionDir)]
  /\ ctl' = [ctl EXCEPT ![p] = "visit"]
  /\ UNCHANGED <<fs, orphans, lockVars, actlog, libVars, loopVars, outsideCtl>>

\* `for task_file in new_tasks: claimed_path = claim_task(task_file,
\* "orchestrator", in_progress)`; after the last file time.sleep(check_interval)
ctl_claim(p) ==
  /\ ctl[p] = "visit"
  /\ \/ /\ todo[p] = {}
        /\ ctl' = [ctl EXCEPT ![p] = "poll"]
        /\ UNCHANGED <<todo, lockVars>>
     \/ \E path \in todo[p] :
          /\ todo' = [todo EXCEPT ![p] = @ \ {path}]
          /\ claim_begin(p, path, "orchestrator")
          /\ ctl' = [ctl EXCEPT ![p] = "claiming"]
          /\ UNCHANGED claimLog
  /\ UNCHANGED <<fs, orphans, actlog, libVars, loopVars, outsideCtl>>

\* claim_task is over: process the claimed path, skip on None; an exception
\* of claim_task ends the cycle in `except Exception` (sleep retry_delay)
ctl_claimed(p) ==
  /\ ctl[p] = "claiming"
  /\ cpc[p] = "done"
  /\ cpc' = [cpc EXCEPT ![p] = "idle"]
  /\ CASE cret[p] = "path" -> ctl' = [ctl EXCEPT ![p] = "process"] /\ UNCHANGED todo
       [] cret[p] = "none" -> ctl' = [ctl EXCEPT ![p] = "visit"] /\ UNCHANGED todo
       [] OTHER -> /\ ctl' = [ctl EXCEPT ![p] = "poll"]
                   /\ todo' = [todo EXCEPT ![p] = {}]
  /\ UNCHANGED <<fs, orphans, lock, cargs, cret, acqRet, claimLog, actlog,
                 libVars, loopVars, outsideCtl>>

\* process_task: read the task, log, hand over to execute_with_persistence;
\* a failing read is caught and logged by `except Exception`
ctl_process(p) ==
  /\ ctl[p] = "process"
  /\ LET task_file == NewTaskPath(cargs[p]) IN
     IF Exists(fs, task_file)
       THEN /\ actlog' = LogActivity(actlog, "Orchestrator triggered Claude for task", p)
            /\ loop_begin(p, "ok", task_file)
            /\ ctl' = [ctl EXCEPT ![p] = "running"]
       ELSE /\ ctl' = [ctl EXCEPT ![p] = "visit"]
            /\ UNCHANGED <<actlog, libVars, loopVars>>
  /\ UNCHANGED <<fs, todo, orphans, lockVars, outsideCtl>>

\* a process_task whose exception ends start_monitoring
ctl_processed_Stop(p) ==
  /\ ctl[p] = "running"
  /\ lpc[p] \in {"returned", "raised"}
  /\ lpc' = [lpc EXCEPT ![p] = "idle"]
  /\ largs' = [largs EXCEPT ![p] = [prompt |-> "ok", task_file |-> NoPath]]
  /\ iteration' = [iteration EXCEPT ![p] = 0]
  /\ invocations' = [invocations EXCEPT ![p] = 0]
  /\ hist' = [hist EXCEPT ![p] = {}]
  /\ lres' = [lres EXCEPT ![p] = NoResult]
  /\ lerr' = [lerr EXCEPT ![p] = "none"]
  /\ cargs' = [cargs EXCEPT ![p] = NoArgs]
  /\ cret' = [cret EXCEPT ![p] = "running"]
  /\ lock' = [lock EXCEPT ![p] = NoLock]
  /\ ctl' = [ctl EXCEPT ![p] = IF lpc[p] = "raised" THEN "stopped" ELSE "visit"]
  /\ UNCHANGED <<fs, todo, orphans, cpc, acqRet, claimLog, actlog, libVars, installed, vault_exists,
                 ai_cli_path, outsideCtl>>

\* execute_with_persistence returned or raised: process_task only logs the
\* exception; its locals are gone and the for loop goes on with the next file
ctl_processed(p) ==
  /\ ctl[p] = "running"
  /\ lpc[p] \in {"returned", "raised"}
  /\ lpc' = [lpc EXCEPT ![p] = "idle"]
  /\ largs' = [largs EXCEPT ![p] = [prompt |-> "ok", task_file |-> NoPath]]
  /\ iteration' = [iteration EXCEPT ![p] = 0]
  /\ invocations' = [invocations EXCEPT ![p] = 0]
  /\ hist' = [hist EXCEPT ![p] = {}]
  /\ lres' = [lres EXCEPT ![p] = NoResult]
  /\ lerr' = [lerr EXCEPT ![p] = "none"]
  /\ cargs' = [cargs EXCEPT ![p] = NoArgs]
  /\ cret' = [cret EXCEPT ![p] = "running"]
  /\ lock' = [lock EXCEPT ![p] = NoLock]
  /\ ctl' = [ctl EXCEPT ![p] = "visit"]
  /\ UNCHANGED <<fs, todo, orphans, cpc, acqRet, claimLog, actlog, libVars, installed, vault_exists,
                 ai_cli_path, outsideCtl>>

\* ------------------------------------------------------ the human operator
\* the operator moves a staged draft from Pending_Approval to Approved
human_approve(n) ==
  /\ Exists(fs, <<PendingApprovalDir, n>>)
  /\ fs' = Rename(fs, <<PendingApprovalDir, n>>, <<ApprovedDir, n>>)
  /\ UNCHANGED <<removed, lockVars, actlog, libVars, loopVars, ctlVars, dispVars>>

\* the operator moves a staged draft from Pending_Approval to Rejected
human_reject(n) ==
  /\ Exists(fs, <<PendingApprovalDir, n>>)
  /\ fs' = Rename(fs, <<PendingApprovalDir, n>>, <<RejectedDir, n>>)
  /\ UNCHANGED <<removed, lockVars, actlog, libVars, loopVars, ctlVars, dispVars>>

\* ----------------------------------------------------- ApprovedEmailSender
\* what the dispatcher never touches
outsideDisp == <<removed, lockVars, libVars, loopVars, ctlVars>>

\* a dispatcher that watches the staging folder instead
approved_dir_Pending == PendingApprovalDir

\* self.approved_dir = self.vault / "Approved"
approved_dir == ApprovedDir

\* position of a file name in sorted() order
NameRank(name) == IF name[1] = "t1" THEN 1 ELSE 2

RECURSIVE SortedSeq(_)
SortedSeq(S) ==
  IF S = {} THEN <<>>
  ELSE LET m == CHOOSE x \in S : \A y \in S : NameRank(x[2]) <= NameRank(y[2])
       IN <<m>> \o SortedSeq(S \ {m})

\* `file_path.is_file() and file_path.suffix == ".md"`
IsMd(path) == Len(path[2]) > 0 /\ path[2][Len(path[2])] = ".md"

\* what a parser returns: None, or a dict with its action
ParsedNone == [ok |-> FALSE, action |-> "send_email"]

\* parse_draft: social posts need neither recipient nor subject (an empty
\* body is accepted); the others need a recipient, email a subject as well
parse_draft(doc) ==
  IF doc.action \in SocialActions THEN [ok |-> TRUE, action |-> doc.action]
  ELSE IF ~doc.to THEN ParsedNone
  ELSE IF doc.action = "send_email" /\ ~doc.subject THEN ParsedNone
  ELSE [ok |-> TRUE, action |-> doc.action]

\* _intelligent_parse: needs recipient and subject, always yields an email
intelligent_parse(doc) ==
  IF ~doc.to \/ ~doc.subject THEN ParsedNone
  ELSE [ok |-> TRUE, action |-> "send_email"]

\* `draft = parse_draft(content)`, `if not draft: draft = _intelligent_parse`
ParseDraft(path, doc) ==
  IF doc.kind # "draft" THEN [NoDraft EXCEPT !.path = path]
  ELSE LET d == IF parse_draft(doc).ok THEN parse_draft(doc)
                ELSE intelligent_parse(doc)
       IN [path |-> path, task_id |-> doc.id, ok |-> d.ok, action |-> d.action,
           body |-> doc.body, platform |-> doc.platform,
           sections |-> doc.sections, results |-> <<>>]

\* the routing of _handle_approved_file
Channel(draft) ==
  CASE draft.action = "send_whatsapp" -> "whatsapp"
    [] draft.action = "post_linkedin" -> "linkedin"
    [] draft.action = "post_twitter" -> "twitter"
    [] draft.action = "post_facebook" -> "facebook"
    [] draft.action = "post_social" ->
         IF draft.platform \in Platforms THEN draft.platform ELSE "linkedin"
    [] draft.action = "post_social_media" -> "multi"
    [] OTHER -> "email"

\* the order in which _handle_multi_platform_post posts
PlatformOrder == <<"linkedin", "twitter", "facebook">>

\* the sections to post, in posting order
RECURSIVE PostOrder(_, _)
PostOrder(sections, i) ==
  IF i > Len(PlatformOrder) THEN <<>>
  ELSE (IF PlatformOrder[i] \in sections THEN <<PlatformOrder[i]>> ELSE <<>>)
         \o PostOrder(sections, i + 1)

\* an outcome rule under which one failed platform fails the whole post
Overall_Strict(results) ==
  IF \A i \in 1..Len(results) : results[i].success THEN "ok" ELSE "failed"

\* all_success / any_success over the results list (all([]) is True)
Overall(results) ==
  IF \A i \in 1..Len(results) : results[i].success THEN "ok"
  ELSE IF \E i \in 1..Len(results) : results[i].success THEN "partial"
  ELSE "failed"

\* the activity each handler logs before _move; "" where it logs nothing
Activity(ch, res) ==
  CASE ch = "email" /\ res = "dry" -> "Email approved and sent (DRY RUN)"
    [] ch = "email" /\ res = "ok" -> "Email sent successfully"
    [] ch = "email" /\ res = "failed" -> "Email send FAILED"
    [] ch = "whatsapp" /\ res = "dry" -> "WhatsApp approved and sent (DRY RUN)"
    [] ch = "whatsapp" /\ res = "ok" -> "WhatsApp sent successfully"
    [] ch = "whatsapp" /\ res = "failed" -> "WhatsApp send FAILED"
    [] ch = "linkedin" /\ res = "dry" -> "LinkedIn post approved (DRY RUN)"
    [] ch = "linkedin" /\ res = "ok" -> "LinkedIn post published"
    [] ch = "twitter" /\ res = "dry" -> "Twitter post approved (DRY RUN)"
    [] ch = "twitter" /\ res = "ok" -> "Twitter post published"
    [] ch = "facebook" /\ res = "dry" -> "Facebook post approved (DRY RUN)"
    [] ch = "facebook" /\ res = "ok" -> "Facebook post published"
    [] ch = "multi" /\ res = "ok" -> "Multi-platform post published"
    [] ch = "multi" /\ res = "partial" -> "Multi-platform post partially published"
    [] OTHER -> ""

\* log_activity(activity, details): the details of a multi-platform post hold
\* the summary of every platform's outcome
LogDispatch(log, draft, res) ==
  LET a == Activity(Channel(draft), res) IN
  IF a = "" THEN log
  ELSE IF Channel(draft) = "multi"
    THEN log \cup {[activity |-> a, by |-> draft.task_id,
                    platforms |-> draft.results]}
    ELSE LogActivity(log, a, draft.task_id)

\* _move: rename into dest_dir under the name <stem>_<timestamp><suffix>
MovedName(name) == Stem(name) \o <<"_ts", name[Len(name)]>>

Move(f, src, dest_dir) ==
  IF Exists(f, src) THEN Rename(f, src, <<dest_dir, MovedName(src[2])>>) ELSE f

\* _close_original_task: the first existing candidate under
\* In_Progress/orchestrator is renamed into Done
CloseCandidates(task_id) ==
  << <<AgentDir(InProgressRoot, "orchestrator"), <<task_id, ".md">> >>,
     <<AgentDir(InProgressRoot, "orchestrator"), <<task_id>> >> >>

\* a closing step that files the task for processing again
CloseOriginalTask_Requeue(f, task_id) ==
  LET c == CloseCandidates(task_id) IN
  IF task_id = "" THEN f
  ELSE IF Exists(f, c[1]) THEN Rename(f, c[1], <<NeedsActionDir, c[1][2]>>)
  ELSE IF Exists(f, c[2]) THEN Rename(f, c[2], <<NeedsActionDir, c[2][2]>>)
  ELSE f

CloseOriginalTask(f, task_id) ==
  LET c == CloseCandidates(task_id) IN
  IF task_id = "" THEN f
  ELSE IF Exists(f, c[1]) THEN Rename(f, c[1], <<DoneDir, c[1][2]>>)
  ELSE IF Exists(f, c[2]) THEN Rename(f, c[2], <<DoneDir, c[2][2]>>)
  ELSE f

ClosesTask(f, task_id) ==
  task_id # "" /\ \E i \in 1..2 : Exists(f, CloseCandidates(task_id)[i])

\* run -> _process_approved_files: sorted(self.approved_dir.iterdir())
disp_poll ==
  /\ dpc = "idle"
  /\ dtodo' = SortedSeq({q \in FilesIn(fs, approved_dir) : IsMd(q)})
  /\ dpc' = "loop"
  /\ UNCHANGED <<fs, actlog, dcur, dres, dry_run, sent, outsideDisp>>

\* _handle_approved_file up to the channel call: read, parse, route, dry-run
\* test (which _handle_multi_platform_post does not have); after the last
\* file the loop sleeps check_interval
disp_handle ==
  /\ dpc = "loop"
  /\ IF dtodo = <<>>
       THEN /\ dpc' = "idle"
            /\ UNCHANGED <<fs, dtodo, dcur, dres>>
       ELSE LET file_path == Head(dtodo) IN
            /\ dtodo' = Tail(dtodo)
            /\ IF ~Exists(fs, file_path)
                 THEN \* read_text raised: logged, next file
                      UNCHANGED <<fs, dpc, dcur, dres>>
                 ELSE LET draft == ParseDraft(file_path, fs[file_path]) IN
                      IF ~draft.ok
                        THEN /\ fs' = Move(fs, file_path, RejectedDir)
                             /\ UNCHANGED <<dpc, dcur, dres>>
                        ELSE /\ dcur' = draft
                             /\ UNCHANGED fs
                             /\ IF Channel(draft) = "multi"
                                  THEN IF draft.sections = {}
                                         THEN dres' = "ok" /\ dpc' = "move"
                                         ELSE dres' = "none" /\ dpc' = "send"
                                  ELSE /\ dres' = IF dry_run THEN "dry" ELSE "none"
                                       /\ dpc' = IF dry_run THEN "move" ELSE "send"
  /\ UNCHANGED <<actlog, dry_run, sent, outsideDisp>>

\* one transmission
Transmission(channel, outcome) ==
  [task_id |-> dcur.task_id, dir |-> dcur.path[1],
   present |-> Exists(fs, dcur.path), outcome |-> outcome,
   channel |-> channel, dry |-> dry_run]

\* the channel call: the message leaves (or fails to); for email the
\* authentication may fail; a multi-platform post makes one call per section
disp_transmit(outcome) ==
  /\ dpc = "send"
  /\ IF Channel(dcur) = "multi"
       THEN LET todo_ == PostOrder(dcur.sections, 1)
                platform == todo_[Len(dcur.results) + 1]
                results == Append(dcur.results,
                                  [platform |-> platform, success |-> outcome = "ok"])
            IN /\ outcome \in {"ok", "failed"}
               /\ sent' = sent \cup {Transmission(platform, outcome)}
               /\ dcur' = [dcur EXCEPT !.results = results]
               /\ IF Len(results) = Len(todo_)
                    THEN dres' = Overall(results) /\ dpc' = "move"
                    ELSE UNCHANGED <<dres, dpc>>
       ELSE /\ outcome = "auth_failed" => Channel(dcur) = "email"
            /\ sent' = sent \cup {Transmission(Channel(dcur), outcome)}
            /\ dres' = outcome
            /\ dpc' = "move"
            /\ UNCHANGED dcur
  /\ UNCHANGED <<fs, actlog, dtodo, dry_run, outsideDisp>>

\* log_activity and the terminal _move of the draft
disp_move ==
  /\ dpc = "move"
  /\ actlog' = LogDispatch(actlog, dcur, dres)
  /\ IF dres \in {"ok", "dry", "partial"}
       THEN /\ fs' = Move(fs, dcur.path, DoneDir)
            /\ dpc' = "close"
            /\ UNCHANGED <<dcur, dres>>
       ELSE \* a failed send, a failed post, RuntimeError of _load_service
            /\ fs' = Move(fs, dcur.path, RejectedDir)
            /\ dpc' = "loop"
            /\ dcur' = NoDraft
            /\ dres' = "none"
  /\ UNCHANGED <<dtodo, dry_run, sent, outsideDisp>>

\* _close_original_task after a successful (or dry-run) send
disp_close ==
  /\ dpc = "close"
  /\ fs' = CloseOriginalTask(fs, dcur.task_id)
  /\ actlog' = IF ClosesTask(fs, dcur.task_id)
                 THEN LogActivity(actlog, "Original task moved to Done after approval",
                                  dcur.task_id)
                 ELSE actlog
  /\ dpc' = "loop"
  /\ dcur' = NoDraft
  /\ dres' = "none"
  /\ UNCHANGED <<dtodo, dry_run, sent, outsideDisp>>

\* ----------------------------------------------------------- specifications
InitFs == [q \in {<<NeedsActionDir, TaskName(t)>> : t \in Tasks} |-> TaskDoc(q[2][1])]

InitLock ==
  /\ lock = [p \in Procs |-> NoLock]
  /\ cpc = [p \in Procs |-> "idle"]
  /\ cargs = [p \in Procs |-> NoArgs]
  /\ cret = [p \in Procs |-> "running"]
  /\ acqRet = [p \in Procs |-> "running"]
  /\ claimLog = <<>>

InitLoopIdle ==
  /\ lpc = [p \in Procs |-> "idle"]
  /\ largs = [p \in Procs |-> [prompt |-> "ok", task_file |-> NoPath]]
  /\ iteration = [p \in Procs |-> 0]
  /\ lres = [p \in Procs |-> NoResult]
  /\ lerr = [p \in Procs |-> "none"]
  /\ invocations = [p \in Procs |-> 0]
  /\ hist = [p \in Procs |-> {}]

InitCtlIdle ==
  /\ ctl = [p \in Procs |-> "new"]
  /\ todo = [p \in Procs |-> {}]
  /\ orphans = {}

InitDispIdle ==
  /\ dpc = "idle"
  /\ dtodo = <<>>
  /\ dcur = NoDraft
  /\ dres = "none"
  /\ dry_run = FALSE
  /\ sent = {}

\* ------------------------------------------------------- _send_with_retry
\* _RETRYABLE
RETRYABLE == {429, 500, 502, 503, 504}

Min(a, b) == IF a < b THEN a ELSE b

\* what service.users().messages().send(...).execute() can do in one attempt:
\* return, raise HttpError with a status, raise any other exception
HttpStatuses == {429, 503, 500, 400, 403}

SendOutcomes ==
  {[kind |-> "ok", status |-> 200]}
  \cup {[kind |-> "HttpError", status |-> st] : st \in HttpStatuses}
  \cup {[kind |-> "Exception", status |-> 0]}

\* `except Exception`: sleep and go on while attempts are left
OtherException(o) ==
  IF attempt < max_retries
    THEN /\ sleeps' = Append(sleeps, backoff)
         /\ backoff' = Min(backoff * 2, 60)
         /\ attempt' = attempt + 1
         /\ spc' = "attempt"
         /\ UNCHANGED sret
    ELSE /\ sret' = [success |-> FALSE, msg |-> "NETWORK_ERROR"]
         /\ spc' = "done"
         /\ UNCHANGED <<attempt, backoff, sleeps>>

\* the call: backoff = 1, first pass of `for attempt in range(1, max_retries + 1)`
send_call ==
  /\ spc = "idle"
  /\ spc' = "attempt"
  /\ attempt' = 1
  /\ backoff' = 1
  /\ UNCHANGED <<max_retries, sret, serrs, sleeps, pathVars, logVars, planVars, parseVars, outsideLib>>

\* one pass of the for loop
send_attempt(o) ==
  /\ spc = "attempt"
  /\ attempt <= max_retries
  /\ serrs' = Append(serrs, o)
  /\ CASE o.kind = "ok" ->
            /\ sret' = [success |-> TRUE, msg |-> "id"]
            /\ spc' = "done"
            /\ UNCHANGED <<attempt, backoff, sleeps>>
       [] o.kind = "HttpError" ->
            IF o.status \in RETRYABLE /\ attempt < max_retries
              THEN /\ sleeps' = Append(sleeps, backoff)
                   /\ backoff' = Min(backoff * 2, 60)
                   /\ attempt' = attempt + 1
                   /\ spc' = "attempt"
                   /\ UNCHANGED sret
              ELSE /\ sret' = [success |-> FALSE, msg |-> "GMAIL_API_ERROR"]
                   /\ spc' = "done"
                   /\ UNCHANGED <<attempt, backoff, sleeps>>
       [] OTHER -> OtherException(o)
  /\ UNCHANGED <<max_retries, pathVars, logVars, planVars, parseVars, outsideLib>>

\* ------------------------------------------- VaultManager path validation
\* A path is a sequence of components, a component a sequence of name pieces:
\* /vault_evil is <<<<"vault", "_evil">>>>. All paths are absolute.
VaultName == <<"vault">>
EvilName == <<"vault", "_evil">>
EtcName == <<"etc">>
DotDot == <<"..">>
vault_path == <<VaultName>>

\* symbolic links of the file system: resolved location -> resolved target
Symlinks ==
  (<<VaultName, <<"link">>>> :> <<EtcName>>)
  @@ (<<VaultName, <<"link2">>>> :> <<EvilName>>)
  @@ (<<VaultName, <<"Done">>, <<"t2.md">>>> :> <<EtcName, <<"passwd">>>>)

\* Path.resolve(): parent references removed, symbolic links followed
RECURSIVE ResolveFrom(_, _, _)
ResolveFrom(acc, path, i) ==
  IF i > Len(path) THEN acc
  ELSE IF path[i] = DotDot
    THEN ResolveFrom(IF acc = <<>> THEN acc ELSE SubSeq(acc, 1, Len(acc) - 1),
                     path, i + 1)
  ELSE LET nxt == Append(acc, path[i]) IN
       ResolveFrom(IF nxt \in DOMAIN Symlinks THEN Symlinks[nxt] ELSE nxt,
                   path, i + 1)

Resolve(path) == ResolveFrom(<<>>, path, 1)

\* str(path): every component after a "/"
RECURSIVE Str(_)
Str(path) ==
  IF path = <<>> THEN <<>>
  ELSE Str(SubSeq(path, 1, Len(path) - 1)) \o <<"/">> \o path[Len(path)]

\* str.startswith
StartsWith(a, b) == Len(b) <= Len(a) /\ SubSeq(a, 1, Len(b)) = b

\* _validate_path: the resolved path, or ValueError
ValidatePath(path) ==
  IF StartsWith(Str(Resolve(path)), Str(Resolve(vault_path)))
    THEN [ok |-> TRUE, path |-> Resolve(path)]
    ELSE [ok |-> FALSE, path |-> <<>>]

Parent(path) == SubSeq(path, 1, Len(path) - 1)

\* the path arguments tried
PathArgs ==
  { <<VaultName, <<"Needs_Action">>, <<"t1.md">>>>,
    <<VaultName, <<"Done">>>>,
    <<VaultName, <<"Done">>, <<"t2.md">>>>,
    <<VaultName, <<"Needs_Action">>, DotDot, <<"Done">>, <<"t1.md">>>>,
    <<VaultName, <<"Needs_Action">>, DotDot, DotDot, EtcName, <<"passwd">>>>,
    <<EtcName, <<"passwd">>>>,
    <<VaultName, <<"link">>, <<"passwd">>>>,
    <<VaultName, <<"link2">>, <<"secret">>>>,
    <<EvilName, <<"secret">>>>,
    <<EvilName>>,
    <<VaultName, DotDot, EvilName, <<"secret">>>> }

IO(op, path) == [op |-> op, path |-> path]

\* read_file: validate, then open for reading; ValueError is raised again
vm_read_file(file_path) ==
  /\ vcall' = [op |-> "read_file", args |-> <<file_path>>]
  /\ LET v == ValidatePath(file_path) IN
     IF v.ok
       THEN vio' = {IO("open_r", v.path)} /\ vret' = "content"
       ELSE vio' = {} /\ vret' = "ValueError"
  /\ UNCHANGED <<sendVars, logVars, planVars, parseVars, outsideLib>>

\* write_file: validate the path and its parent, create the parent, open for
\* writing; ValueError is turned into False
vm_write_file(file_path) ==
  /\ vcall' = [op |-> "write_file", args |-> <<file_path>>]
  /\ LET v == ValidatePath(file_path) IN
     IF v.ok /\ ValidatePath(Parent(v.path)).ok
       THEN /\ vio' = {IO("mkdir", Parent(v.path)), IO("open_w", v.path)}
            /\ vret' = "True"
       ELSE vio' = {} /\ vret' = "False"
  /\ UNCHANGED <<sendVars, logVars, planVars, parseVars, outsideLib>>

\* move_file: validate source and destination_dir, create the directory,
\* validate destination_dir / source.name, rename
vm_move_file(source, destination_dir) ==
  /\ vcall' = [op |-> "move_file", args |-> <<source, destination_dir>>]
  /\ LET s == ValidatePath(source)
         d == ValidatePath(destination_dir)
     IN
     IF ~(s.ok /\ d.ok)
       THEN vio' = {} /\ vret' = "False"
       ELSE LET dest == ValidatePath(Append(d.path, s.path[Len(s.path)])) IN
            IF dest.ok
              THEN /\ vio' = {IO("mkdir", d.path), IO("rename_from", s.path),
                              IO("rename_to", dest.path)}
                   /\ vret' = "True"
              ELSE vio' = {IO("mkdir", d.path)} /\ vret' = "False"
  /\ UNCHANGED <<sendVars, logVars, planVars, parseVars, outsideLib>>

\* ------------------------------------------- VaultManager.log_activity
MaxLogCalls == 3

Header == <<"# Activity Log", 0>>

\* the bullet line of the n-th call of thread p
Entry(p, n) == <<p, n>>

\* the call, up to `if not log_file.exists()`
log_check(p) ==
  /\ gpc[p] = "idle"
  /\ ncalls[p] < MaxLogCalls
  /\ ncalls' = [ncalls EXCEPT ![p] = @ + 1]
  /\ gpc' = [gpc EXCEPT ![p] = IF log_file.exists THEN "append" ELSE "header"]
  /\ UNCHANGED <<log_file, written, sendVars, pathVars, planVars, parseVars, outsideLib>>

\* log_file.write_text(header): the file is created or truncated
log_header(p) ==
  /\ gpc[p] = "header"
  /\ log_file' = [exists |-> TRUE, lines |-> <<Header>>]
  /\ gpc' = [gpc EXCEPT ![p] = "append"]
  /\ UNCHANGED <<ncalls, written, sendVars, pathVars, planVars, parseVars, outsideLib>>

\* open(log_file, 'a') and f.write(entry): created if missing, one line added
log_append(p) ==
  /\ gpc[p] = "append"
  /\ log_file' = [exists |-> TRUE,
                  lines |-> Append(log_file.lines, Entry(p, ncalls[p]))]
  /\ written' = written \cup {Entry(p, ncalls[p])}
  /\ gpc' = [gpc EXCEPT ![p] = "idle"]
  /\ UNCHANGED <<ncalls, sendVars, pathVars, planVars, parseVars, outsideLib>>

\* ------------------------------------------- process_task and the plan
MaxProcess == 3

NoReq == [task |-> "", plan_exists |-> FALSE, plan_section |-> "none"]

\* a plan file, with the number of times it was written
PlanFile(t, n) == [kind |-> "plan", id |-> t, by |-> "worker", writes |-> n]

PlanPath(t) == <<PlansDir, TaskName(t)>>

\* a prompt builder that always asks for a plan
PlanSection_Always(plan_exists) == "create"

\* _create_claude_prompt: STEP 1 of the prompt
PlanSection(plan_exists) == IF plan_exists THEN "skip" ELSE "create"

\* process_task on a claimed task, up to the hand-over to the worker
plan_process_task(t) ==
  /\ preq = NoReq
  /\ Len(requests) < MaxProcess
  /\ Exists(fs, <<AgentDir(InProgressRoot, "orchestrator"), TaskName(t)>>)
  /\ LET plan_exists == Exists(fs, PlanPath(t))
         req == [task |-> t, plan_exists |-> plan_exists,
                 plan_section |-> PlanSection(plan_exists)]
     IN /\ preq' = req
        /\ requests' = Append(requests, req)
  /\ actlog' = LogActivity(actlog, "Orchestrator triggered Claude for task", t)
  /\ UNCHANGED <<fsVars, lockVars, loopVars, ctlVars, dispVars,
                 sendVars, pathVars, logVars, parseVars, extVars>>

\* the worker follows STEP 1 of the prompt it was given: it writes the plan
\* to Plans/<task name>, or reads the existing one and leaves it alone
plan_worker_step ==
  /\ preq # NoReq
  /\ fs' = IF preq.plan_section = "create"
             THEN [q \in DOMAIN fs \cup {PlanPath(preq.task)} |->
                     IF q = PlanPath(preq.task)
                       THEN PlanFile(preq.task,
                                     IF Exists(fs, q) THEN fs[q].writes + 1 ELSE 1)
                       ELSE fs[q]]
             ELSE fs
  /\ preq' = NoReq
  /\ UNCHANGED <<removed, lockVars, actlog, loopVars, ctlVars, dispVars,
                 sendVars, pathVars, logVars, parseVars, extVars, requests>>

\* ------------------------------------------------- parse_draft on text
\* A text is a sequence of lines; a line is what the regular expressions of
\* parse_draft can tell apart.
MaxBodyLines == 2

Text(v) == [kind |-> "text", key |-> "", val |-> v]
Field(key, v) == [kind |-> "field", key |-> key, val |-> v]
Blank == [kind |-> "blank", key |-> "", val |-> ""]
Delim == [kind |-> "delim", key |-> "", val |-> ""]
ToApprove == [kind |-> "to_approve", key |-> "", val |-> ""]
EmailBody == [kind |-> "email_body", key |-> "", val |-> ""]

NoFields == [to |-> "", subject |-> "", body |-> <<>>]
NotParsed == [ok |-> FALSE, to |-> "", subject |-> "", body |-> <<>>]

\* str.strip() on a text: leading and trailing blank lines go
RECURSIVE StripLead(_)
StripLead(lines) ==
  IF lines # <<>> /\ lines[1] = Blank THEN StripLead(Tail(lines)) ELSE lines

RECURSIVE StripTrail(_)
StripTrail(lines) ==
  IF lines # <<>> /\ lines[Len(lines)] = Blank
    THEN StripTrail(SubSeq(lines, 1, Len(lines) - 1))
    ELSE lines

Strip(lines) == StripTrail(StripLead(lines))

\* the draft file written from the fields: front matter, then the body
BuildDraft(to, subject, body) ==
  <<Delim, Field("to", to), Field("subject", subject), Delim>> \o body

\* _FRONTMATTER_RE: "---", the shortest block, "---", and a line after it
FmEnd(c) ==
  IF Len(c) >= 4 /\ c[1] = Delim /\ \E j \in 3..(Len(c) - 1) : c[j] = Delim
    THEN CHOOSE j \in 3..(Len(c) - 1) :
           c[j] = Delim /\ \A k \in 3..(j - 1) : c[k] # Delim
    ELSE 0

\* the first value of a key in the front matter block, "" if there is none
FmValue(block, key) ==
  LET hits == {i \in 1..Len(block) :
                 block[i].kind = "field" /\ block[i].key = key}
  IN IF hits = {} THEN ""
     ELSE block[CHOOSE i \in hits : \A j \in hits : i <= j].val

HeaderKeys == {"to", "subject", "task_id", "action"}

\* the scan of body_lines[:40]: a line "key: value" fills the field if it is
\* still empty and always sets body_start behind itself; the scan ends once
\* to and subject are known and the index has passed body_start
RECURSIVE ScanBody(_, _, _)
ScanBody(lines, k, st) ==
  IF k > Len(lines) THEN st
  ELSE LET hit == lines[k].kind = "field" /\ lines[k].key \in HeaderKeys
           st1 == IF hit
                    THEN [to |-> IF lines[k].key = "to" /\ st.to = ""
                                   THEN lines[k].val ELSE st.to,
                          subject |-> IF lines[k].key = "subject" /\ st.subject = ""
                                        THEN lines[k].val ELSE st.subject,
                          body_start |-> k]
                    ELSE st
       IN IF st1.to # "" /\ st1.subject # "" /\ k - 1 > st1.body_start
            THEN st1
            ELSE ScanBody(lines, k + 1, st1)

\* the lines up to the first "## To Approve" / "## To Reject"
RECURSIVE UpToApprove(_)
UpToApprove(lines) ==
  IF lines = <<>> \/ lines[1] = ToApprove THEN <<>>
  ELSE <<lines[1]>> \o UpToApprove(Tail(lines))

\* re.sub(r"^##\s+Email Body\s*\n", "", body)
DropEmailBody(lines) ==
  IF Len(lines) >= 2 /\ lines[1] = EmailBody THEN Tail(lines) ELSE lines

\* parse_draft for a send_email draft
parse_draft_text(content) ==
  LET c == Strip(content)
      e == FmEnd(c)
      block == IF e = 0 THEN <<>> ELSE SubSeq(c, 2, e - 1)
      body_lines == IF e = 0 THEN c ELSE Strip(SubSeq(c, e + 1, Len(c)))
      st == ScanBody(body_lines, 1,
                     [to |-> FmValue(block, "to"),
                      subject |-> FmValue(block, "subject"),
                      body_start |-> 0])
      raw == SubSeq(body_lines, st.body_start + 1, Len(body_lines))
      body == Strip(DropEmailBody(Strip(UpToApprove(raw))))
  IN IF st.to = "" \/ st.subject = "" THEN NotParsed
     ELSE [ok |-> TRUE, to |-> st.to, subject |-> st.subject, body |-> body]

\* the lines a body is made of
BodyLines ==
  {Text("B"), Text("C"), Blank, Field("subject", "quoted"),
   Field("note", "x"), ToApprove, EmailBody}

Bodies ==
  {b \in UNION {[1..n -> BodyLines] : n \in 1..MaxBodyLines} : Strip(b) # <<>>}

\* build the draft text from the fields and parse it
parse_call ==
  /\ pin # NoFields
  /\ pout = NotParsed
  /\ pout' = parse_draft_text(BuildDraft(pin.to, pin.subject, pin.body))
  /\ UNCHANGED <<pin, sendVars, pathVars, logVars, planVars, outsideLib>>

outsideEnrich == <<stopVars, runVars, outsideExt>>
outsideStop == <<enrichVars, runVars, outsideExt>>
outsideRun == <<enrichVars, stopVars, outsideExt>>

\* ------------------------------------- _enrich_with_invoice_pdf, e-mail path
\* a parsed e-mail draft: the attachments of its frontmatter, the invoice_id
\* of its frontmatter, and whether its text mentions "Invoice ID: <n>"
MaxAttachments == 2

EmailDrafts == [attachments : 0..MaxAttachments, invoice_id : BOOLEAN, mention : BOOLEAN]

NoEmail == [attachments |-> 0, invoice_id |-> FALSE, mention |-> FALSE]

NoOutcome == [result |-> "none", sent |-> FALSE, attachments |-> 0, folder |-> <<>>]

\* _fetch_invoice_pdf: the PDF record, or None on any failure (every
\* exception is caught inside)
FetchResults == {"pdf", "None"}

\* the draft names an invoice: frontmatter invoice_id, else the regex scan
InvoiceRef(d) == d.invoice_id \/ d.mention

\* a variant that asks for the PDF whatever the draft already carries
NeedsFetch_Always(d) == InvoiceRef(d)

\* `if draft.get("attachments"): return`, then `if not invoice_id: return`
NeedsFetch(d) == d.attachments = 0 /\ InvoiceRef(d)

\* _handle_approved_file read and parsed an e-mail draft
enrich_begin(d) ==
  /\ epc = "idle"
  /\ epc' = "enrich"
  /\ edraft' = d
  /\ eatt' = d.attachments
  /\ efetches' = <<>>
  /\ eout' = NoOutcome
  /\ UNCHANGED outsideEnrich

\* self._enrich_with_invoice_pdf(draft, content): a fetched PDF is appended
\* to draft["attachments"], a failed fetch only logs a warning
enrich(r) ==
  /\ epc = "enrich"
  /\ epc' = "send"
  /\ IF NeedsFetch(edraft)
       THEN /\ efetches' = Append(efetches, r)
            /\ eatt' = IF r = "pdf" THEN eatt + 1 ELSE eatt
       ELSE UNCHANGED <<efetches, eatt>>
  /\ UNCHANGED <<edraft, eout, outsideEnrich>>

\* the folder the e-mail path moves the draft to
EmailFolder(dry, o) ==
  IF dry \/ o = "ok" THEN DoneDir ELSE RejectedDir

\* dry run, or _load_service + _send_with_retry(..., attachments=attachments),
\* then the move to Done or Rejected
enrich_send(o) ==
  /\ epc = "send"
  /\ epc' = "done"
  /\ eout' = [result |-> IF dry_run THEN "dry_run" ELSE o,
              sent |-> ~dry_run /\ o # "auth_failed",
              attachments |-> IF ~dry_run /\ o # "auth_failed" THEN eatt ELSE 0,
              folder |-> EmailFolder(dry_run, o)]
  /\ UNCHANGED <<edraft, eatt, efetches, outsideEnrich>>

\* the handler returned
enrich_return ==
  /\ epc = "done"
  /\ epc' = "idle"
  /\ edraft' = NoEmail
  /\ eatt' = 0
  /\ efetches' = <<>>
  /\ eout' = NoOutcome
  /\ UNCHANGED outsideEnrich

\* ------------------------------------------------- stop() and the poll loops
MaxItems == 2

\* what a loop begins after stop() was called on its component
Late(who, what) == IF who \in stops THEN late \cup {<<who, what>>} ELSE late

\* OrchestratorController.stop: self.running = False
mon_stop ==
  /\ "controller" \notin stops
  /\ running' = FALSE
  /\ stops' = stops \cup {"controller"}
  /\ UNCHANGED <<kpc, kitems, shutdown, rpc, ritems, late, outsideStop>>

\* start_monitoring: self.running = True
mon_start ==
  /\ kpc = "new"
  /\ kpc' = "test"
  /\ running' = TRUE
  /\ UNCHANGED <<kitems, shutdown, rpc, ritems, stops, late, outsideStop>>

\* `while self.running:` and, when it holds, the listing that opens a poll
\* cycle: new_tasks = list_files_in_folder('needs_action')
mon_test(n) ==
  /\ kpc = "test"
  /\ IF running
       THEN /\ kpc' = "visit"
            /\ kitems' = n
            /\ late' = Late("controller", "poll")
       ELSE /\ kpc' = "ended"
            /\ UNCHANGED <<kitems, late>>
  /\ UNCHANGED <<running, shutdown, rpc, ritems, stops, outsideStop>>

\* the for loop: claim_task and process_task for the next file, with no test
\* of the flag; after the last file time.sleep(check_interval)
mon_visit ==
  /\ kpc = "visit"
  /\ IF kitems > 0
       THEN /\ kitems' = kitems - 1
            /\ UNCHANGED kpc
       ELSE /\ kpc' = "test"
            /\ UNCHANGED kitems
  /\ UNCHANGED <<running, shutdown, rpc, ritems, stops, late, outsideStop>>

\* ApprovedEmailSender.stop: self._shutdown = True
run_stop ==
  /\ "dispatcher" \notin stops
  /\ shutdown' = TRUE
  /\ stops' = stops \cup {"dispatcher"}
  /\ UNCHANGED <<running, kpc, kitems, rpc, ritems, late, outsideStop>>

\* run is entered; _shutdown was set to False by __init__ only
run_start ==
  /\ rpc = "new"
  /\ rpc' = "test"
  /\ UNCHANGED <<running, kpc, kitems, shutdown, ritems, stops, late, outsideStop>>

\* `while not self._shutdown:` and, when it holds, the listing of
\* _process_approved_files: sorted(self.approved_dir.iterdir())
run_test(n) ==
  /\ rpc = "test"
  /\ IF ~shutdown
       THEN /\ rpc' = "handle"
            /\ ritems' = n
            /\ late' = Late("dispatcher", "poll")
       ELSE /\ rpc' = "ended"
            /\ UNCHANGED <<ritems, late>>
  /\ UNCHANGED <<running, kpc, kitems, shutdown, stops, outsideStop>>

\* _handle_approved_file for the next file, with no test of the flag; after
\* the last file time.sleep(self.check_interval)
run_handle ==
  /\ rpc = "handle"
  /\ IF ritems > 0
       THEN /\ ritems' = ritems - 1
            /\ UNCHANGED rpc
       ELSE /\ rpc' = "test"
            /\ UNCHANGED ritems
  /\ UNCHANGED <<running, kpc, kitems, shutdown, stops, late, outsideStop>>

\* ------------------------------ ApprovedEmailSender.run over many poll cycles
\* the transmissions counted per draft, up to this many
MaxSends == 2

\* what the real send of _handle_approved_file ends with: a message sent,
\* (False, error) from _send_with_retry, RuntimeError from _load_service,
\* or any other exception of _load_service (unreadable token pickle, failed
\* credential refresh)
HandleOutcomes == {"ok", "failed", "auth_failed", "raised"}

DraftPath(t) == <<approved_dir, TaskName(t)>>

\* run: `while not self._shutdown:`, then _process_approved_files lists
\* sorted(self.approved_dir.iterdir()) and keeps the .md files
run_poll ==
  /\ hpc = "idle"
  /\ htodo' = SortedSeq({DraftPath(t) : t \in inbox})
  /\ hpc' = "handle"
  /\ UNCHANGED <<inbox, hres, hsent, renames_ok, outsideRun>>

\* _handle_approved_file up to the send: read, parse, _load_service and
\* _send_with_retry; an exception other than RuntimeError leaves the
\* handler and the for loop and is logged by run, which sleeps
run_send(o) ==
  /\ hpc = "handle"
  /\ htodo # <<>>
  /\ LET t == Head(htodo)[2][1] IN
       hsent' = [hsent EXCEPT ![t] = IF o = "ok" THEN Min(@ + 1, MaxSends) ELSE @]
  /\ IF o = "raised"
       THEN /\ hpc' = "idle"
            /\ htodo' = <<>>
            /\ hres' = "none"
       ELSE /\ hpc' = "move"
            /\ hres' = o
            /\ UNCHANGED htodo
  /\ UNCHANGED <<inbox, renames_ok, outsideRun>>

\* self._move(file_path, done_dir | rejected_dir, reason): src.rename(dest)
\* inside try / except Exception; a failure is logged and the handler ends
run_move(ok) ==
  /\ hpc = "move"
  /\ ok \/ ~renames_ok
  /\ LET t == Head(htodo)[2][1] IN
       inbox' = IF ok THEN inbox \ {t} ELSE inbox
  /\ htodo' = Tail(htodo)
  /\ hres' = "none"
  /\ hpc' = "handle"
  /\ UNCHANGED <<hsent, renames_ok, outsideRun>>

\* the for loop is over: time.sleep(self.check_interval)
run_sleep ==
  /\ hpc = "handle"
  /\ htodo = <<>>
  /\ hpc' = "idle"
  /\ UNCHANGED <<inbox, htodo, hres, hsent, renames_ok, outsideRun>>

MaxRetries == 8

NoSend == [success |-> FALSE, msg |-> "none"]

InitSendIdle ==
  /\ spc = "idle"
  /\ max_retries = 3
  /\ attempt = 0
  /\ backoff = 1
  /\ sret = NoSend
  /\ serrs = <<>>
  /\ sleeps = <<>>

NoCall == [op |-> "none", args |-> <<>>]

InitPathIdle ==
  /\ vcall = NoCall
  /\ vret = "none"
  /\ vio = {}

NoFile == [exists |-> FALSE, lines |-> <<>>]

InitLogIdle ==
  /\ log_file = NoFile
  /\ gpc = [p \in Procs |-> "idle"]
  /\ ncalls = [p \in Procs |-> 0]
  /\ written = {}

InitPlanIdle ==
  /\ preq = NoReq
  /\ requests = <<>>

InitParseIdle ==
  /\ pin = NoFields
  /\ pout = NotParsed

InitEnrichIdle ==
  /\ epc = "idle"
  /\ edraft = NoEmail
  /\ eatt = 0
  /\ efetches = <<>>
  /\ eout = NoOutcome

InitStopIdle ==
  /\ running = FALSE
  /\ kpc = "new"
  /\ kitems = 0
  /\ shutdown = FALSE
  /\ rpc = "new"
  /\ ritems = 0
  /\ stops = {}
  /\ late = {}

InitRunIdle ==
  /\ inbox = {}
  /\ hpc = "idle"
  /\ htodo = <<>>
  /\ hres = "none"
  /\ hsent = [t \in Tasks |-> 0]
  /\ renames_ok = TRUE

InitExtIdle ==
  /\ InitEnrichIdle
  /\ InitStopIdle
  /\ InitRunIdle

InitLibIdle ==
  /\ InitExtIdle
  /\ InitParseIdle
  /\ InitSendIdle
  /\ InitPathIdle
  /\ InitLogIdle
  /\ InitPlanIdle

InitClaim ==
  /\ InitLibIdle
  /\ fs = InitFs
  /\ removed = {}
  /\ InitLock
  /\ actlog = {}
  /\ installed = {"claude"}
  /\ vault_exists = TRUE
  /\ ai_cli_path = [p \in Procs |-> FindAiCli(installed)]
  /\ InitLoopIdle
  /\ InitCtlIdle
  /\ InitDispIdle

NextClaim ==
  \/ \E p \in Procs, t \in Tasks : claim_call(p, t, TestAgent(p))
  \/ \E p \in Procs : acquire(p)
  \/ \E p \in Procs : claim_exists(p)
  \/ \E p \in Procs : claim_rename(p)
  \/ \E p \in Procs : claim_release(p)
  \/ \E p \in Procs : claim_return(p)
  \/ \E t \in Tasks : external_remove(t)

SpecClaim == InitClaim /\ [][NextClaim]_vars

NextLock ==
  \/ \E p \in Procs, t \in Tasks, to \in {0, DefaultTimeout} : direct_acquire(p, t, to)
  \/ \E p \in Procs : direct_release(p)
  \/ \E p \in Procs, t \in Tasks : claim_call(p, t, TestAgent(p))
  \/ \E p \in Procs : acquire(p)
  \/ \E p \in Procs : claim_exists(p)
  \/ \E p \in Procs : claim_rename(p)
  \/ \E p \in Procs : claim_release(p)
  \/ \E p \in Procs : claim_return(p)

SpecLock == InitClaim /\ [][NextLock]_vars

\* execute_with_persistence called on its own: the task (if any) is already
\* claimed, RalphLoopManager.__init__ has probed the installed binaries
ClaimPath(t) == <<NeedsActionDir, TaskName(t)>>

ClaimedPath(t) == <<AgentDir(InProgressRoot, "orchestrator"), TaskName(t)>>

InitLoop ==
  /\ InitLibIdle
  /\ vault_exists \in BOOLEAN
  /\ fs = [q \in {ClaimedPath(t) : t \in IF vault_exists THEN Tasks ELSE {}}
             |-> TaskDoc(q[2][1])]
  /\ removed = {}
  /\ InitLock
  /\ actlog = {}
  /\ installed \in SUBSET Clis
  /\ ai_cli_path = [p \in Procs |-> FindAiCli(installed)]
  /\ InitLoopIdle
  /\ InitCtlIdle
  /\ InitDispIdle

NextLoop ==
  \/ \E p \in Procs, pr \in PromptKinds, tf \in {NoPath} \cup {ClaimedPath(t) : t \in Tasks} :
       loop_call(p, pr, tf)
  \/ \E p \in Procs : loop_iter(p)
  \/ \E p \in Procs : worker_write_plan(p)
  \/ \E p \in Procs, wf \in BOOLEAN : worker_stage_draft(p, wf)
  \/ \E p \in Procs, d \in {DoneDir, AccountingDir} : worker_move_task(p, d)
  \/ \E p \in Procs, o \in Outcomes : worker_exit(p, o)
  \/ \E p \in Procs : loop_result(p)

SpecLoop == InitLoop /\ [][NextLoop]_vars



\* the whole engine: controllers, their loops and workers, the operator and
\* the dispatcher, started on a vault in which a crash may have left tasks
\* under In_Progress/orchestrator
SystemInstalled == {{}, {"claude"}}

\* what a worker run ends with when the system is observed as a whole
SystemOutcomes ==
  {[kind |-> "exit", rc |-> 0, out |-> {"marker"}],
   [kind |-> "exit", rc |-> 0, out |-> {}],
   [kind |-> "exit", rc |-> 1, out |-> {}],
   [kind |-> "timeout", rc |-> 1, out |-> {}]}

Init ==
  /\ InitLibIdle
  /\ orphans \in SUBSET Tasks
  /\ fs = [q \in {IF t \in orphans THEN ClaimedPath(t) ELSE ClaimPath(t) : t \in Tasks}
             |-> TaskDoc(q[2][1])]
  /\ removed = {}
  /\ InitLock
  /\ actlog = {}
  /\ installed \in SystemInstalled
  /\ vault_exists = TRUE
  /\ ai_cli_path = [p \in Procs |-> FindAiCli(installed)]
  /\ InitLoopIdle
  /\ ctl = [p \in Procs |-> "new"]
  /\ todo = [p \in Procs |-> {}]
  /\ dpc = "idle"
  /\ dtodo = <<>>
  /\ dcur = NoDraft
  /\ dres = "none"
  /\ dry_run \in BOOLEAN
  /\ sent = {}

Next ==
  \/ \E p \in Procs : ctl_start(p)
  \/ \E p \in Procs : ctl_list(p)
  \/ \E p \in Procs : ctl_claim(p)
  \/ \E p \in Procs : acquire(p)
  \/ \E p \in Procs : claim_exists(p)
  \/ \E p \in Procs : claim_rename(p)
  \/ \E p \in Procs : claim_release(p)
  \/ \E p \in Procs : ctl_claimed(p)
  \/ \E p \in Procs : ctl_process(p)
  \/ \E p \in Procs : loop_iter(p)
  \/ \E p \in Procs : worker_write_plan(p)
  \/ \E p \in Procs, wf \in BOOLEAN : worker_stage_draft(p, wf)
  \/ \E p \in Procs : worker_move_task(p, DoneDir)
  \/ \E p \in Procs, o \in SystemOutcomes : worker_exit(p, o)
  \/ \E p \in Procs : loop_result(p)
  \/ \E p \in Procs : ctl_processed(p)
  \/ \E t \in Tasks : human_approve(TaskName(t))
  \/ \E t \in Tasks : human_reject(TaskName(t))
  \/ disp_poll
  \/ disp_handle
  \/ \E o \in {"ok", "failed", "auth_failed"} : disp_transmit(o)
  \/ disp_move
  \/ disp_close

Spec == Init /\ [][Next]_vars

\* an action value that no branch of the routing names
UnknownAction == "create_invoice"

\* the dispatcher alone, on a vault in which the operator has approved a
\* draft of any channel for task t1 (and possibly an email draft for t2);
\* the tasks were claimed by some agent, or already moved to Done
DraftDocs(t) ==
  {Draft(t, a, to, su, bo, "linkedin", {}) :
     a \in {"send_email", "send_whatsapp", UnknownAction}, to \in BOOLEAN,
     su \in BOOLEAN, bo \in BOOLEAN}
  \cup {Draft(t, a, FALSE, FALSE, bo, "linkedin", {}) :
     a \in {"post_linkedin", "post_twitter", "post_facebook"}, bo \in BOOLEAN}
  \cup {Draft(t, "post_social", FALSE, FALSE, bo, pl, {}) :
     bo \in BOOLEAN, pl \in Platforms \cup {"other"}}
  \cup {Draft(t, "post_social_media", FALSE, FALSE, TRUE, "linkedin", se) :
     se \in SUBSET Platforms}

ClaimingAgents == {"orchestrator", "my_agent"}

TaskPlaces(t) ==
  {<<AgentDir(InProgressRoot, a), TaskName(t)>> : a \in ClaimingAgents}
  \cup {<<DoneDir, TaskName(t)>>}

InitDisp ==
  /\ InitLibIdle
  /\ \E d1 \in DraftDocs("t1"), place \in TaskPlaces("t1"), second \in BOOLEAN :
       fs = [q \in {place, ClaimedPath("t2"), <<ApprovedDir, TaskName("t1")>>}
                   \cup (IF second THEN {<<ApprovedDir, TaskName("t2")>>} ELSE {})
               |-> IF q[1] = ApprovedDir
                     THEN (IF q[2] = TaskName("t1") THEN d1 ELSE DraftDoc("t2", TRUE))
                     ELSE TaskDoc(q[2][1])]
  /\ removed = {}
  /\ InitLock
  /\ actlog = {}
  /\ installed = {"claude"}
  /\ vault_exists = TRUE
  /\ ai_cli_path = [p \in Procs |-> FindAiCli(installed)]
  /\ InitLoopIdle
  /\ InitCtlIdle
  /\ dpc = "idle"
  /\ dtodo = <<>>
  /\ dcur = NoDraft
  /\ dres = "none"
  /\ dry_run \in BOOLEAN
  /\ sent = {}

NextDisp ==
  \/ disp_poll
  \/ disp_handle
  \/ \E o \in {"ok", "failed", "auth_failed"} : disp_transmit(o)
  \/ disp_move
  \/ disp_close

SpecDisp == InitDisp /\ [][NextDisp]_vars

\* the controller alone with its loop and worker, on a vault from which an
\* outside actor may remove a task; every step of the controller's thread is
\* eventually taken, and subprocess.run ends (exit or TimeoutExpired)
InitLive ==
  /\ InitLibIdle
  /\ orphans = {}
  /\ fs = [q \in {ClaimPath(t) : t \in Tasks} |-> TaskDoc(q[2][1])]
  /\ removed = {}
  /\ InitLock
  /\ actlog = {}
  /\ installed \in SystemInstalled
  /\ vault_exists = TRUE
  /\ ai_cli_path = [p \in Procs |-> FindAiCli(installed)]
  /\ InitLoopIdle
  /\ ctl = [p \in Procs |-> "new"]
  /\ todo = [p \in Procs |-> {}]
  /\ InitDispIdle

ControllerStep(p) ==
  \/ ctl_start(p)
  \/ ctl_list(p)
  \/ ctl_claim(p)
  \/ acquire(p)
  \/ claim_exists(p)
  \/ claim_rename(p)
  \/ claim_release(p)
  \/ ctl_claimed(p)
  \/ ctl_process(p)
  \/ loop_iter(p)
  \/ loop_result(p)
  \/ ctl_processed(p)

WorkerEnds(p) == \E o \in SystemOutcomes : worker_exit(p, o)

NextLive ==
  \/ \E p \in Procs : ControllerStep(p)
  \/ \E p \in Procs : worker_move_task(p, DoneDir)
  \/ \E p \in Procs : WorkerEnds(p)
  \/ \E t \in Tasks : external_remove(t)

SpecLive ==
  /\ InitLive
  /\ [][NextLive]_vars
  /\ \A p \in Procs : WF_vars(ControllerStep(p)) /\ WF_vars(WorkerEnds(p))

\* _send_with_retry on its own, for every max_retries up to the bound and
\* every sequence of attempt outcomes
InitSend ==
  /\ fs = InitFs
  /\ removed = {}
  /\ InitLock
  /\ actlog = {}
  /\ installed = {"claude"}
  /\ vault_exists = TRUE
  /\ ai_cli_path = [p \in Procs |-> FindAiCli(installed)]
  /\ InitLoopIdle
  /\ InitCtlIdle
  /\ InitDispIdle
  /\ spc = "idle"
  /\ max_retries \in 1..MaxRetries
  /\ attempt = 0
  /\ backoff = 1
  /\ sret = NoSend
  /\ serrs = <<>>
  /\ sleeps = <<>>
  /\ InitPathIdle
  /\ InitLogIdle
  /\ InitPlanIdle
  /\ InitParseIdle
  /\ InitExtIdle

NextSend ==
  \/ send_call
  \/ \E o \in SendOutcomes : send_attempt(o)

SpecSend == InitSend /\ [][NextSend]_vars

\* read_file, write_file and move_file called with every path argument
InitPath ==
  /\ fs = InitFs
  /\ removed = {}
  /\ InitLock
  /\ actlog = {}
  /\ installed = {"claude"}
  /\ vault_exists = TRUE
  /\ ai_cli_path = [p \in Procs |-> FindAiCli(installed)]
  /\ InitLoopIdle
  /\ InitCtlIdle
  /\ InitDispIdle
  /\ InitLibIdle

NextPath ==
  \/ \E q \in PathArgs : vm_read_file(q)
  \/ \E q \in PathArgs : vm_write_file(q)
  \/ \E q, d \in PathArgs : vm_move_file(q, d)

SpecPath == InitPath /\ [][NextPath]_vars

\* the threads of main.py logging on the same day
NextLog ==
  \E p \in Procs : log_check(p) \/ log_header(p) \/ log_append(p)

SpecLog == InitPath /\ [][NextLog]_vars

\* process_task called again and again on claimed tasks, each with or
\* without a plan written earlier
InitPlan ==
  /\ \E planned \in SUBSET Tasks :
       fs = [q \in {ClaimedPath(t) : t \in Tasks} \cup {PlanPath(t) : t \in planned} |->
               IF q[1] = PlansDir THEN PlanFile(q[2][1], 1) ELSE TaskDoc(q[2][1])]
  /\ removed = {}
  /\ InitLock
  /\ actlog = {}
  /\ installed = {"claude"}
  /\ vault_exists = TRUE
  /\ ai_cli_path = [p \in Procs |-> FindAiCli(installed)]
  /\ InitLoopIdle
  /\ InitCtlIdle
  /\ InitDispIdle
  /\ InitLibIdle

NextPlan ==
  \/ \E t \in Tasks : plan_process_task(t)
  \/ plan_worker_step

SpecPlan == InitPlan /\ [][NextPlan]_vars

\* parse_draft on the text built from every combination of field values
InitParse ==
  /\ fs = InitFs
  /\ removed = {}
  /\ InitLock
  /\ actlog = {}
  /\ installed = {"claude"}
  /\ vault_exists = TRUE
  /\ ai_cli_path = [p \in Procs |-> FindAiCli(installed)]
  /\ InitLoopIdle
  /\ InitCtlIdle
  /\ InitDispIdle
  /\ InitSendIdle
  /\ InitPathIdle
  /\ InitLogIdle
  /\ InitPlanIdle
  /\ InitExtIdle
  /\ pin \in [to : {"a@b.com", "c@d.org"}, subject : {"S", "Re: x"}, body : Bodies]
  /\ pout = NotParsed

NextParse == parse_call

SpecParse == InitParse /\ [][NextParse]_vars

\* the e-mail path of the dispatcher's handler on every e-mail draft, in a
\* dry run or not
InitEnrich ==
  /\ fs = InitFs
  /\ removed = {}
  /\ InitLock
  /\ actlog = {}
  /\ installed = {"claude"}
  /\ vault_exists = TRUE
  /\ ai_cli_path = [p \in Procs |-> FindAiCli(installed)]
  /\ InitLoopIdle
  /\ InitCtlIdle
  /\ dpc = "idle"
  /\ dtodo = <<>>
  /\ dcur = NoDraft
  /\ dres = "none"
  /\ dry_run \in BOOLEAN
  /\ sent = {}
  /\ InitLibIdle

NextEnrich ==
  \/ \E d \in EmailDrafts : enrich_begin(d)
  \/ \E r \in FetchResults : enrich(r)
  \/ \E o \in {"ok", "failed", "auth_failed"} : enrich_send(o)
  \/ enrich_return

SpecEnrich == InitEnrich /\ [][NextEnrich]_vars

\* two controllers polling the same Needs_Action folder that holds task t1,
\* each with its loop and a worker that completes what it is given
MaxLockDepth == 2

MarkerExit == [kind |-> "exit", rc |-> 0, out |-> {"marker"}]

InitPoll ==
  /\ InitLibIdle
  /\ orphans = {}
  /\ fs = [q \in {ClaimPath("t1")} |-> TaskDoc("t1")]
  /\ removed = {}
  /\ InitLock
  /\ actlog = {}
  /\ installed = {"claude"}
  /\ vault_exists = TRUE
  /\ ai_cli_path = [p \in Procs |-> FindAiCli(installed)]
  /\ InitLoopIdle
  /\ ctl = [p \in Procs |-> "started"]
  /\ todo = [p \in Procs |-> {}]
  /\ InitDispIdle

\* the listing, while no sidecar of a sidecar is nested deeper than the bound
poll_list(p) ==
  /\ \A q \in DOMAIN fs : Len(q[2]) <= 2 + MaxLockDepth
  /\ ctl_list(p)

NextPoll ==
  \/ \E p \in Procs : poll_list(p)
  \/ \E p \in Procs : ctl_claim(p)
  \/ \E p \in Procs : acquire(p)
  \/ \E p \in Procs : claim_exists(p)
  \/ \E p \in Procs : claim_rename(p)
  \/ \E p \in Procs : claim_release(p)
  \/ \E p \in Procs : ctl_claimed(p)
  \/ \E p \in Procs : ctl_process(p)
  \/ \E p \in Procs : loop_iter(p)
  \/ \E p \in Procs : worker_exit(p, MarkerExit)
  \/ \E p \in Procs : loop_result(p)
  \/ \E p \in Procs : ctl_processed(p)

SpecPoll == InitPoll /\ [][NextPoll]_vars

\* the dispatcher polling for ever, not in a dry run, an Approved folder the
\* operator has put drafts in, on a vault where renames work or may fail
InitRun ==
  /\ fs = InitFs
  /\ removed = {}
  /\ InitLock
  /\ actlog = {}
  /\ installed = {"claude"}
  /\ vault_exists = TRUE
  /\ ai_cli_path = [p \in Procs |-> FindAiCli(installed)]
  /\ InitLoopIdle
  /\ InitCtlIdle
  /\ InitDispIdle
  /\ InitSendIdle
  /\ InitPathIdle
  /\ InitLogIdle
  /\ InitPlanIdle
  /\ InitParseIdle
  /\ InitEnrichIdle
  /\ InitStopIdle
  /\ inbox \in SUBSET Tasks
  /\ hpc = "idle"
  /\ htodo = <<>>
  /\ hres = "none"
  /\ hsent = [t \in Tasks |-> 0]
  /\ renames_ok \in BOOLEAN

DispatcherStep ==
  \/ run_poll
  \/ \E o \in HandleOutcomes : run_send(o)
  \/ \E ok \in BOOLEAN : run_move(ok)
  \/ run_sleep

NextRun == DispatcherStep

SpecRun == InitRun /\ [][NextRun]_vars

\* the same with the thread of run scheduled for ever
SpecRunLive == InitRun /\ [][NextRun]_vars /\ WF_vars(DispatcherStep)

\* the controller with its loop and worker on a vault in which an earlier
\* claimer crashed inside claim_task, after acquire and before the rename:
\* the tasks of `stale` have their lock file next to them in Needs_Action
CrashedLock == LockDoc("crashed")

InitStale ==
  /\ InitLibIdle
  /\ orphans = {}
  /\ \E stale \in SUBSET Tasks :
       fs = [q \in {ClaimPath(t) : t \in Tasks}
                    \cup {LockFilePath(ClaimPath(t)) : t \in stale}
               |-> IF q[2][Len(q[2])] = ".lock" THEN CrashedLock ELSE TaskDoc(q[2][1])]
  /\ removed = {}
  /\ InitLock
  /\ actlog = {}
  /\ installed = {"claude"}
  /\ vault_exists = TRUE
  /\ ai_cli_path = [p \in Procs |-> FindAiCli(installed)]
  /\ InitLoopIdle
  /\ ctl = [p \in Procs |-> "new"]
  /\ todo = [p \in Procs |-> {}]
  /\ InitDispIdle

NextStale ==
  \/ \E p \in Procs : ControllerStep(p)
  \/ \E p \in Procs : worker_move_task(p, DoneDir)
  \/ \E p \in Procs : WorkerEnds(p)

SpecStale ==
  /\ InitStale
  /\ [][NextStale]_vars
  /\ \A p \in Procs : WF_vars(ControllerStep(p)) /\ WF_vars(WorkerEnds(p))

\* the two poll loops of main.py, each in its own thread, and a caller that
\* may call stop() on either component at any moment after construction
NextStop ==
  \/ mon_stop
  \/ mon_start
  \/ \E n \in 0..MaxItems : mon_test(n)
  \/ mon_visit
  \/ run_stop
  \/ run_start
  \/ \E n \in 0..MaxItems : run_test(n)
  \/ run_handle

SpecStop == InitPath /\ [][NextStop]_vars

\* ------------------------------------------------------------------ claims

ClaimsOn(t) == {i \in 1..Len(claimLog) : claimLog[i].task_file = ClaimPath(t)}

InFlightOn(t) == {p \in Procs : cpc[p] # "idle" /\ cargs[p].task_file = ClaimPath(t)}

Wins(t) ==
  Cardinality({i \in ClaimsOn(t) : claimLog[i].result = "path"})
  + Cardinality({p \in InFlightOn(t) : cret[p] = "path"})

\* C1: claim exclusivity. Over all interleavings of claim_task calls by two
\* agents on a task of Needs_Action, at most one call ever gets the new path;
\* once the calls on a task that nobody else removed are over, exactly one
\* returned the path and every other one (concurrent or later) returned None,
\* and the task file is in the winner's In_Progress/<agent> folder only.
C1_ClaimExclusive ==
  \A t \in Tasks :
    /\ Wins(t) <= 1
    /\ (t \notin removed /\ InFlightOn(t) = {} /\ ClaimsOn(t) # {}) =>
         \E w \in ClaimsOn(t) :
           /\ claimLog[w].result = "path"
           /\ \A i \in ClaimsOn(t) \ {w} : claimLog[i].result = "none"
           /\ PathsOfDoc(fs, TaskDoc(t)) =
                {<<AgentDir(InProgressRoot, claimLog[w].agent_name), TaskName(t)>>}

C1_Witness ==
  /\ Len(claimLog) = 3
  /\ \E t \in Tasks :
       /\ ClaimsOn(t) = {1, 2, 3}
       /\ InFlightOn(t) = {}
       /\ claimLog[2].result = "path"
       /\ claimLog[1].result = "none"
       /\ claimLog[3].result = "none"
       /\ claimLog[1].agent_name # claimLog[2].agent_name

Holds(p) == lock[p].acquired

AcquireReturnsFalse(p) == acqRet[p] # "false" /\ acqRet'[p] = "false"

\* C3: at most one FileLock instance holds the lock of a resource; a holder
\* owns the sidecar file it created itself; an acquire() that returns false
\* does so with the lock file of another holder in place and untouched, after
\* its timeout has elapsed (with timeout 0: after exactly one attempt).
C3_LockExclusive ==
  /\ [](\A p \in Procs :
         Holds(p) =>
           /\ Exists(fs, lock[p].lock_file_path)
           /\ fs[lock[p].lock_file_path] = LockDoc(p)
           /\ \A q \in Procs \ {p} :
                Holds(q) => lock[q].file_path # lock[p].file_path)
  /\ [][\A p \in Procs :
          AcquireReturnsFalse(p) =>
            /\ fs' = fs
            /\ \E q \in Procs \ {p} :
                 /\ Holds(q)
                 /\ lock[q].lock_file_path = lock[p].lock_file_path
                 /\ Exists(fs', lock[q].lock_file_path)
            /\ lock'[p].elapsed >= lock[p].timeout
            /\ (lock[p].timeout = 0 => lock'[p].attempts = 1)
            /\ ~lock'[p].acquired]_vars

C3_Witness ==
  \E p \in Procs, q \in Procs :
    /\ Holds(p)
    /\ cpc[p] = "held"
    /\ cpc[q] = "d_failed"
    /\ acqRet[q] = "false"
    /\ lock[q].timeout = 0
    /\ lock[q].attempts = 1
    /\ lock[q].file_path = lock[p].file_path

LocksCreatedBy(p) == {q \in DOMAIN fs : fs[q] = LockDoc(p)}

\* C4: when claim_task is over (new path returned, None returned because the
\* lock was busy or the task vanished, or the rename raised), no lock file
\* created by that call exists any more.
C4_NoLockLeftBehind ==
  \A p \in Procs : cpc[p] \in {"done", "idle"} => LocksCreatedBy(p) = {}

C4_Witness ==
  /\ Len(claimLog) = 3
  /\ \E i, j, k \in 1..3 :
       /\ claimLog[i].result = "path"
       /\ claimLog[j].result = "raised"
       /\ claimLog[k].result = "none"
       /\ claimLog[k].task_file = claimLog[j].task_file
       /\ k > j

\* ------------------------------------------------- claims on the loop
Finished(p) == lpc[p] \in {"returned", "raised"}

TaskUntouched(p) ==
  /\ largs[p].task_file # NoPath
  /\ Exists(fs, largs[p].task_file)
  /\ ~PendingGlob(fs, largs[p].task_file)

OnlyPlainFailures(p) ==
  /\ hist[p] # {}
  /\ hist[p] \subseteq {"fail_plain", "suberr"}

\* C8: when every invocation fails without a completion signal (non-zero exit
\* without rate-limit text, or a subprocess error) and nobody moves the task
\* file, the call never returns; it invokes the worker at most max_iterations
\* times and, once over, has invoked it exactly max_iterations times, has
\* raised, has moved the task file from In_Progress to Failed and has written
\* an activity-log entry.
C8_Exhaustion ==
  \A p \in Procs :
    (OnlyPlainFailures(p) /\ largs[p].task_file # NoPath) =>
      /\ lpc[p] # "returned"
      /\ invocations[p] <= max_iterations
      /\ lpc[p] = "raised" =>
           /\ invocations[p] = max_iterations
           /\ lerr[p] # "none"
           /\ ~Exists(fs, largs[p].task_file)
           /\ PathsOfDoc(fs, TaskDoc(largs[p].task_file[2][1])) =
                {<<FailedDir, largs[p].task_file[2]>>}
           /\ \E e \in actlog : e.by = p

C8_Witness ==
  \E p \in Procs :
    /\ lpc[p] = "raised"
    /\ hist[p] = {"fail_plain", "suberr"}
    /\ largs[p].task_file # NoPath
    /\ lerr[p] = "Ralph loop failed: max iterations exceeded"
    /\ Exists(fs, <<FailedDir, largs[p].task_file[2]>>)

EmptyOutputStub(p) ==
  /\ largs[p].task_file = NoPath
  /\ hist[p] = {"ok_plain"}
  /\ lres[p] = [kind |-> "exit", rc |-> 0, out |-> {}]

NumFallbacks(inst) == Cardinality((inst \cap {"gemini", "qwen"}) \ {FindAiCli(inst)})

\* C10: the number of worker invocations of one call never exceeds
\* max_iterations plus the number of fallback workers, also when every
\* binary always exits non-zero with a rate-limit signature.
C10_BoundedInvocations ==
  \A p \in Procs : invocations[p] <= max_iterations + NumFallbacks(installed)

\* ------------------------------------------- claims on the whole engine
StagesOf(t) == PathsOfDoc(fs, TaskDoc(t))

\* C2: in every reachable state of the engine (controller, loop and worker,
\* operator, dispatcher, in any interleaving) each task file is present in
\* exactly one folder: never in two, never in none.
C2_OneStage ==
  \A t \in Tasks : Cardinality(StagesOf(t)) = 1

\* one task was moved to Failed by the loop, the other was closed into Done
\* by the dispatcher after its draft was sent
C2_Witness ==
  \E t, u \in Tasks :
    /\ t # u
    /\ StagesOf(t) = {<<FailedDir, TaskName(t)>>}
    /\ StagesOf(u) = {<<DoneDir, TaskName(u)>>}
    /\ [activity |-> "Original task moved to Done after approval", by |-> u]
         \in actlog

\* C5 as stated: once the controller has started, and before its first poll,
\* every task a crash left under In_Progress/orchestrator is back in
\* Needs_Action.
C5_CrashRecovery ==
  \A p \in Controllers :
    ctl[p] = "started" =>
      \A t \in orphans : Exists(fs, ClaimPath(t)) /\ ~Exists(fs, ClaimedPath(t))

ApprovedFiles(f) == FilesIn(f, ApprovedDir)
PendingFiles(f) == FilesIn(f, PendingApprovalDir)

HumanStep ==
  \E t \in Tasks : human_approve(TaskName(t)) \/ human_reject(TaskName(t))

\* C6: the dispatcher transmits a draft only from Approved, with the file
\* still there when the message leaves; and every step that puts a file into
\* Approved or takes one out of Pending_Approval is a step of the operator.
C6_ApprovalGate ==
  /\ [](/\ \A s \in sent : s.dir = ApprovedDir /\ s.present
        /\ dpc = "send" => dcur.path[1] = ApprovedDir /\ Exists(fs, dcur.path))
  /\ [][(\/ ~(ApprovedFiles(fs') \subseteq ApprovedFiles(fs))
         \/ ~(PendingFiles(fs) \subseteq PendingFiles(fs'))) => HumanStep]_vars

\* an approved draft was transmitted and filed under Done, while nothing was
\* transmitted for a task whose draft the operator rejected
C6_Witness ==
  \E s \in sent :
    /\ s.outcome = "ok"
    /\ s.dir = ApprovedDir
    /\ Exists(fs, <<DoneDir, MovedName(TaskName(s.task_id))>>)
    /\ fs[<<DoneDir, MovedName(TaskName(s.task_id))>>].kind = "draft"

\* ------------------------------------- claims on the loop's error paths
TaskOf(p) == largs[p].task_file[2][1]

\* C11: once an invocation has timed out the worker is never invoked again in
\* that call, however many iterations remain: the call is handling the
\* timeout or has raised; when it has raised, the task file is no longer in
\* In_Progress and, unless the worker itself had moved it, it is in Failed.
C11_TimeoutFinal ==
  \A p \in Procs :
    "timeout" \in hist[p] =>
      /\ lpc[p] \in {"result", "raised"}
      /\ lres[p].kind = "timeout"
      /\ lpc[p] = "raised" =>
           /\ lerr[p] = "AI CLI timed out"
           /\ largs[p].task_file # NoPath =>
                /\ ~Exists(fs, largs[p].task_file)
                /\ "moved" \notin hist[p] =>
                     PathsOfDoc(fs, TaskDoc(TaskOf(p))) =
                       {<<FailedDir, largs[p].task_file[2]>>}

\* the first invocation timed out with iterations to spare: one invocation,
\* the task in Failed, the call raised
C11_Witness ==
  \E p \in Procs :
    /\ lpc[p] = "raised"
    /\ hist[p] = {"timeout"}
    /\ invocations[p] = 1
    /\ iteration[p] = 0
    /\ max_iterations > 1
    /\ largs[p].task_file # NoPath
    /\ Exists(fs, <<FailedDir, largs[p].task_file[2]>>)

InputInvalid(p) ==
  /\ lpc[p] # "idle"
  /\ ~vault_exists \/ largs[p].prompt \in {"empty", "blank", "too_large"}

\* C12 as stated: a call whose input precondition fails (empty or blank
\* request, request over the size bound, vault missing) is over with the
\* validation error and without any worker invocation.
C12_ValidationError ==
  \A p \in Procs :
    (InputInvalid(p) /\ Finished(p)) =>
      /\ lpc[p] = "raised"
      /\ lerr[p] = "ValueError"
      /\ invocations[p] = 0

\* C12 amended: a call whose input precondition fails never invokes the
\* worker and never returns or retries; it raises the validation error when
\* a worker binary was found, and the no-worker RuntimeError when none was.
C12_FailsBeforeAnyInvocation ==
  \A p \in Procs :
    InputInvalid(p) =>
      /\ invocations[p] = 0
      /\ iteration[p] = 0
      /\ lpc[p] \in {"iter", "raised"}
      /\ lpc[p] = "raised" =>
           lerr[p] = IF ai_cli_path[p] = "none"
                       THEN "RuntimeError: No AI CLI available"
                       ELSE "ValueError"

\* a request over the size bound, with a worker binary and iterations at
\* hand, was refused by the validation
C12_Witness ==
  \E p \in Procs :
    /\ lpc[p] = "raised"
    /\ largs[p].prompt = "too_large"
    /\ ai_cli_path[p] # "none"
    /\ lerr[p] = "ValueError"
    /\ invocations[p] = 0
    /\ max_iterations > 1

\* --------------------------------- claims on the controller's error paths
\* the exception handler of process_task has run for p in this step
HandlerDone(p) ==
  /\ ctl[p] = "running"
  /\ lpc[p] = "raised"
  /\ ctl'[p] # "running"

\* C13 as stated: when process_task has caught an exception (no worker
\* binary, validation error, any error raised by the loop) the task file is
\* no longer in In_Progress: it was moved to Failed.
C13_FailedOnException ==
  [][\A p \in Controllers :
       HandlerDone(p) =>
         /\ ~Exists(fs', largs[p].task_file)
         /\ Exists(fs', <<FailedDir, largs[p].task_file[2]>>)]_vars

\* process_task has handed task t to execute_with_persistence
HandedOver(t) ==
  \E p \in Controllers :
    ctl[p] = "running" /\ largs[p].task_file = ClaimedPath(t)

SawMarker(p) == hist[p] \cap {"ok_marker", "fail_marker"} # {}

\* C15 as stated: once an invocation's output carried the completion marker,
\* whatever its exit status, the call is handling that result or has
\* returned: no further invocation, no error, no move of the task to Failed.
C15_MarkerAuthoritative ==
  \A p \in Procs :
    SawMarker(p) =>
      /\ lpc[p] \in {"result", "returned"}
      /\ lerr[p] = "none"
      /\ largs[p].task_file # NoPath =>
           ~Exists(fs, <<FailedDir, largs[p].task_file[2]>>)

\* --------------------------------------------- claims on the dispatcher
\* C16 as stated: with dry-run enabled no channel transmission is ever made,
\* whatever the action of the draft.
C16_DryRunNoTransmit ==
  dry_run => sent = {}

\* the dispatcher is through with the draft of task t
Handled(t) ==
  /\ DraftsOf(fs, t) # {}
  /\ ~Exists(fs, <<ApprovedDir, TaskName(t)>>)
  /\ dcur.task_id # t

DraftOf(t) == fs[CHOOSE q \in DraftsOf(fs, t) : TRUE]

DraftAt(dir, t) == <<dir, MovedName(TaskName(t))>> \in DraftsOf(fs, t)

SentFor(t) == {s \in sent : s.task_id = t}

\* the fields the channel of a draft requires
HasRequired(doc) ==
  CASE doc.action \in SocialActions -> doc.body
    [] doc.action = "send_whatsapp" -> doc.to
    [] OTHER -> doc.to /\ doc.subject

\* C17 as stated: with dry-run enabled, once the dispatcher is through with a
\* well-formed draft, the draft is in Done and the task named by its task_id
\* is in Done.
C17_DryRunTerminal ==
  dry_run =>
    \A t \in Tasks :
      (Handled(t) /\ HasRequired(DraftOf(t))) =>
        /\ DraftAt(DoneDir, t)
        /\ StagesOf(t) = {<<DoneDir, TaskName(t)>>}

\* C18 as stated: once the dispatcher is through with a draft whose
\* transmission succeeded, the draft is in Done and the originating task is
\* in Done whichever agent had claimed it; after a failed transmission the
\* draft is in Rejected and not in Done.
C18_TerminalMoves ==
  \A t \in Tasks :
    (Handled(t) /\ SentFor(t) # {}) =>
      /\ (\A s \in SentFor(t) : s.outcome = "ok") =>
           /\ DraftAt(DoneDir, t)
           /\ StagesOf(t) = {<<DoneDir, TaskName(t)>>}
      /\ (\A s \in SentFor(t) : s.outcome # "ok") =>
           /\ DraftAt(RejectedDir, t)
           /\ ~DraftAt(DoneDir, t)

PartialLog(t) ==
  {e \in actlog : e.activity = "Multi-platform post partially published" /\ e.by = t}

\* C19: once the dispatcher is through with a post_social_media draft, every
\* platform that has a section was attempted exactly once, whatever the
\* outcome of the others; with a success and a failure among them the draft
\* is in Done, not in Rejected, and the activity log holds the outcome of
\* every platform; with failures only the draft is in Rejected.
C19_MultiPlatform ==
  \A t \in Tasks :
    (Handled(t) /\ DraftOf(t).action = "post_social_media") =>
      /\ {s.channel : s \in SentFor(t)} = DraftOf(t).sections
      /\ Cardinality(SentFor(t)) = Cardinality(DraftOf(t).sections)
      /\ ((\E s \in SentFor(t) : s.outcome = "ok")
            /\ (\E s \in SentFor(t) : s.outcome # "ok")) =>
           /\ DraftAt(DoneDir, t)
           /\ ~DraftAt(RejectedDir, t)
           /\ \E e \in PartialLog(t) :
                {[channel |-> e.platforms[i].platform,
                  ok |-> e.platforms[i].success] : i \in 1..Len(e.platforms)}
                  = {[channel |-> s.channel, ok |-> s.outcome = "ok"] :
                       s \in SentFor(t)}
      /\ (SentFor(t) # {} /\ \A s \in SentFor(t) : s.outcome # "ok") =>
           /\ DraftAt(RejectedDir, t)
           /\ ~DraftAt(DoneDir, t)

\* LinkedIn published, Twitter failed, Facebook published: the draft is in
\* Done and the log holds the three outcomes
C19_Witness ==
  \E t \in Tasks :
    /\ Handled(t)
    /\ DraftOf(t).sections = Platforms
    /\ {s.channel : s \in {x \in SentFor(t) : x.outcome # "ok"}} = {"twitter"}
    /\ DraftAt(DoneDir, t)
    /\ \E e \in PartialLog(t) : Len(e.platforms) = 3

\* C20 as stated: once the dispatcher is through with a draft that lacks the
\* fields its channel requires, the draft is in Rejected and nothing was
\* transmitted for it; a draft that has them is in Rejected only after a
\* transmission that failed.
C20_ParseFailed ==
  \A t \in Tasks :
    Handled(t) =>
      /\ ~HasRequired(DraftOf(t)) =>
           DraftAt(RejectedDir, t) /\ SentFor(t) = {}
      /\ (HasRequired(DraftOf(t)) /\ DraftAt(RejectedDir, t)) =>
           SentFor(t) # {}

\* the reasons _handle_approved_file and the channel handlers pass to _move
\* with the Rejected folder
RejectReasons ==
  {"parse_failed", "auth_failed", "send_error", "linkedin_post_failed",
   "twitter_post_failed", "facebook_post_failed", "all_platforms_failed"}

\* C21 as stated: the name of every draft the dispatcher moved to Rejected
\* holds the reason of the rejection.
C21_RejectedNameHasReason ==
  \A t \in Tasks :
    DraftAt(RejectedDir, t) =>
      \E i \in 1..Len(MovedName(TaskName(t))) :
        MovedName(TaskName(t))[i] \in RejectReasons

\* C22 as stated: a draft the dispatcher moved to Done or to Rejected has an
\* entry in the activity log for that outcome.
C22_TerminalLogged ==
  \A t \in Tasks :
    (Handled(t) /\ (DraftAt(DoneDir, t) \/ DraftAt(RejectedDir, t))) =>
      \E e \in actlog : e.by = t

\* an error with a transient signature: HttpError with a status of _RETRYABLE
Transient(o) == o.kind = "HttpError" /\ o.status \in RETRYABLE

RECURSIVE Pow2(_)
Pow2(n) == IF n = 0 THEN 1 ELSE 2 * Pow2(n - 1)

\* C23 as stated: every attempt that was followed by another attempt raised
\* an error with a transient signature, and the sleeps between the attempts
\* are 1, 2, 4, ... capped at 60.
C23_RetryOnlyTransient ==
  /\ \A i \in 1..Len(serrs) : i < Len(serrs) => Transient(serrs[i])
  /\ \A i \in 1..Len(sleeps) : sleeps[i] = Min(Pow2(i - 1), 60)

\* the location lies in the vault: its leading components are the root's
InsideVault(path) ==
  LET root == Resolve(vault_path) IN
  Len(root) <= Len(path) /\ SubSeq(path, 1, Len(root)) = root

\* C24 as stated: a call with a path argument that resolves outside the vault
\* fails and makes no I/O at all, and every I/O of any call is on a location
\* inside the vault.
C24_NoIOOutsideVault ==
  /\ \A x \in vio : InsideVault(x.path)
  /\ (\E i \in 1..Len(vcall.args) : ~InsideVault(Resolve(vcall.args[i]))) =>
       (vio = {} /\ vret \in {"ValueError", "False"})

\* C25 as stated: the day's file holds the header once, as its first line,
\* followed by one bullet line for every append made so far.
C25_AppendOnly ==
  log_file.exists =>
    /\ log_file.lines # <<>>
    /\ log_file.lines[1] = Header
    /\ \A i \in 2..Len(log_file.lines) : log_file.lines[i] # Header
    /\ {log_file.lines[i] : i \in 2..Len(log_file.lines)} = written
    /\ Len(log_file.lines) = 1 + Cardinality(written)

\* the place of a folder in the order of the stages
StageRank(dir) ==
  CASE dir[1] = "Needs_Action" -> 0
    [] dir[1] = "In_Progress" -> 1
    [] dir[1] = "Pending_Approval" -> 2
    [] dir[1] = "Approved" -> 3
    [] dir[1] = "Rejected" -> 3
    [] OTHER -> 4

TerminalDirs == {DoneDir, FailedDir, RejectedDir}

\* the files a step moved: gone from one path, present with the same content
\* at a new one
MovesOf(f, g) ==
  {m \in (DOMAIN f \ DOMAIN g) \X (DOMAIN g \ DOMAIN f) :
     f[m[1]] = g[m[2]] /\ f[m[1]].kind \in {"task", "draft"}}

\* C26: every step of the engine that moves a task or a draft takes it out of
\* a folder that is not Done, Failed or Rejected and puts it into a folder
\* that is not an earlier stage. (The engine has no In_Progress -> Needs_Action
\* recovery move, see C5, so the exception of the claim is never taken.)
C26_ForwardOnly ==
  [][\A m \in MovesOf(fs, fs') :
       /\ m[1][1] \notin TerminalDirs
       /\ StageRank(m[2][1]) >= StageRank(m[1][1])
       /\ m[2][1] # m[1][1]]_vars

\* a task went the whole way: claimed, its draft staged, approved, sent and
\* filed under Done, and the task closed into Done by the dispatcher
C26_Witness ==
  \E t \in Tasks :
    /\ DraftAt(DoneDir, t)
    /\ StagesOf(t) = {<<DoneDir, TaskName(t)>>}
    /\ \E s \in sent : s.task_id = t /\ s.outcome = "ok"
    /\ ~Exists(fs, ClaimPath(t))

PlansOf(t) == {q \in DOMAIN fs : fs[q].kind = "plan" /\ fs[q].id = t}

\* C27: a work request built while the plan of the task exists tells the
\* worker to skip planning; a task never has two plan artifacts, and no plan
\* is ever written a second time.
C27_PlanOnce ==
  /\ \A i \in 1..Len(requests) :
       requests[i].plan_exists => requests[i].plan_section = "skip"
  /\ \A t \in Tasks : Cardinality(PlansOf(t)) <= 1
  /\ \A q \in DOMAIN fs : fs[q].kind = "plan" => fs[q].writes = 1

\* the same task was processed three times: the first request asked for the
\* plan, the next two found it and asked to skip planning
C27_Witness ==
  \E t \in Tasks :
    /\ Len(requests) = 3
    /\ \A i \in 1..3 : requests[i].task = t
    /\ ~requests[1].plan_exists
    /\ requests[2].plan_exists /\ requests[3].plan_exists
    /\ preq = NoReq
    /\ PlansOf(t) = {PlanPath(t)}

\* C28 as stated: parsing the draft built from to, subject and a body gives
\* back the same to, the same subject and the same body, up to surrounding
\* whitespace.
C28_RoundTrip ==
  pout # NotParsed =>
    /\ pout.to = pin.to
    /\ pout.subject = pin.subject
    /\ pout.body = Strip(pin.body)

\* the fallback list of the loop, in its order
FallbackOrder == <<"gemini", "qwen">>

\* the fallback binaries on PATH other than the one in use
Alternates(inst, current) ==
  {FallbackOrder[i] : i \in 1..Len(FallbackOrder)} \cap (inst \ {current})

NextAlternate(inst, current) ==
  FallbackOrder[CHOOSE i \in 1..Len(FallbackOrder) :
                  /\ FallbackOrder[i] \in Alternates(inst, current)
                  /\ \A j \in 1..(i - 1) : FallbackOrder[j] \notin Alternates(inst, current)]

RateLimited(p) ==
  /\ lpc[p] = "result"
  /\ lres[p].kind = "exit"
  /\ lres[p].rc # 0
  /\ "ratelimit" \in lres[p].out

\* C29: the step that handles a non-zero exit with a rate-limit signature on
\* stdout, while a fallback binary other than the current one is on PATH,
\* makes the first such binary of the fallback order the current one, leaves
\* the iteration counter as it is, and goes back to the head of the loop.
C29_FallbackSameIteration ==
  [][\A p \in Procs :
       (RateLimited(p) /\ lpc'[p] # "result"
          /\ Alternates(installed, ai_cli_path[p]) # {}) =>
         /\ ai_cli_path'[p] = NextAlternate(installed, ai_cli_path[p])
         /\ iteration'[p] = iteration[p]
         /\ lpc'[p] = "iter"]_vars

\* claude was rate-limited in the second iteration; the loop is on gemini,
\* still in the second iteration, with the worker invoked a third time
C29_Witness ==
  \E p \in Procs :
    /\ "claude" \in installed
    /\ ai_cli_path[p] = "gemini"
    /\ "fail_ratelimit" \in hist[p]
    /\ iteration[p] = 1
    /\ invocations[p] = 3
    /\ lpc[p] = "run"

\* the controller is between two polls, inside process_task, or waiting for
\* the worker subprocess
Suspended(p) == ctl[p] \in {"poll", "process", "running"}

LockFiles(f) == {q \in DOMAIN f : f[q].kind = "lock"}

\* C30: while the controller is suspended no lock file it created exists and
\* its FileLock is not held; the dispatcher creates no lock file at all, so
\* none exists that is not the controller's, in particular while a
\* transmission with its retry backoff is under way.
C30_NoLockWhileSuspended ==
  /\ \A p \in Controllers :
       Suspended(p) =>
         /\ \A q \in LockFiles(fs) : fs[q].by # p
         /\ ~lock[p].acquired
  /\ \A q \in LockFiles(fs) : fs[q].by \in Controllers

\* the controller has claimed a task under its lock and now waits for the
\* worker subprocess while the dispatcher is transmitting a draft
C30_Witness ==
  \E p \in Controllers :
    /\ ctl[p] = "running"
    /\ lpc[p] = "run"
    /\ Exists(fs, largs[p].task_file)
    /\ largs[p].task_file[1] = AgentDir(InProgressRoot, "orchestrator")
    /\ dpc = "send"

\* ----------------------------------------------- claims on the attachment fetch
\* what the handler does with an e-mail draft that names no invoice and
\* carries no attachment, when the transmission ends with `result`
PlainOutcome(result) ==
  [result |-> result,
   sent |-> result \in {"ok", "failed"},
   attachments |-> 0,
   folder |-> IF result \in {"dry_run", "ok"} THEN DoneDir ELSE RejectedDir]

C32_NoPollAfterStop == late = {}

\* ------------------------------------------------- claims on the end of a task
\* C33 as stated: with a worker binary installed, a task claimed into
\* In_Progress/orchestrator is eventually in Done or in Failed.
C33_ClaimedTaskEnds ==
  installed = {"claude"} =>
    \A t \in Tasks :
      Exists(fs, ClaimedPath(t)) ~> (\E q \in StagesOf(t) : q[1] \in {DoneDir, FailedDir})

\* ------------------------------------------------------ claims on sidecar files
IsLockName(name) == Len(name) > 0 /\ name[Len(name)] = ".lock"

\* C34 as stated: no controller processes a claimed file that is a sidecar
\* lock file.
C34_LockNeverATask ==
  \A p \in Procs :
    ctl[p] \in {"process", "running"} => ~IsLockName(cargs[p].task_file[2])

\* ----------------------------------------------- claims on a task that has left
\* C35 as stated: the loop starts no worker invocation once an invocation
\* of the running call has moved the task file out of In_Progress.
C35_NoRunAfterMove ==
  [][\A p \in Procs :
      (lpc[p] = "iter" /\ lpc'[p] = "run") => "moved" \notin hist[p]]_vars

\* --------------------------------------------- claims on repeated poll cycles
\* C36 as stated: no draft is transmitted successfully more than once.
C36_SentAtMostOnce == \A t \in Tasks : hsent[t] <= 1

\* C38 as stated: on a vault where renames succeed, a draft in Approved
\* eventually leaves Approved.
C38_DraftLeavesApproved ==
  renames_ok => \A t \in Tasks : (t \in inbox) ~> (t \notin inbox)

\* ------------------------------------------------ claims on what Done means
\* C37 as stated: a post_social_media draft the dispatcher has moved to Done
\* had at least one platform post that succeeded.
C37_DoneNeedsAPost ==
  \A t \in Tasks :
    (Handled(t) /\ DraftOf(t).action = "post_social_media" /\ DraftAt(DoneDir, t)) =>
      \E s \in SentFor(t) : s.outcome = "ok"

\* the channels the action of a draft names
NamedChannels(doc) ==
  CASE doc.action = "send_email" -> {"email"}
    [] doc.action = "send_whatsapp" -> {"whatsapp"}
    [] doc.action = "post_linkedin" -> {"linkedin"}
    [] doc.action = "post_twitter" -> {"twitter"}
    [] doc.action = "post_facebook" -> {"facebook"}
    [] doc.action = "post_social" -> Platforms
    [] doc.action = "post_social_media" -> Platforms
    [] OTHER -> {}

\* C40 as stated: every transmission made for a draft is on a channel the
\* draft's action names; for an action outside the list there is none.
C40_OnlyNamedChannel ==
  \A t \in Tasks :
    DraftsOf(fs, t) # {} => \A s \in SentFor(t) : s.channel \in NamedChannels(DraftOf(t))

\* ------------------------------------------------------ claims on stale locks
\* C39: a task in Needs_Action is eventually claimed by the polling
\* controller, also when a crashed claimer left the task's lock file behind.
C39_StaleLockNoBar ==
  \A t \in Tasks : Exists(fs, ClaimPath(t)) ~> ~Exists(fs, ClaimPath(t))

\* the task whose lock a crashed claimer left behind has been claimed
C39_Witness ==
  \E t \in Tasks :
    /\ Exists(fs, ClaimedPath(t))
    /\ \E q \in DOMAIN fs : fs[q] = CrashedLock /\ q[2][1] = t /\ q[1] # NeedsActionDir

====
